---- MODULE Spec2Model ----
(***************************************************************************)
(* AlphaRank: the metric scoring engine.                                   *)
(*                                                                         *)
(* Two object families are modelled, as the repository holds them:         *)
(*   - ModelPipeline (src/pipeline.py) with calculators/, standardizers/,  *)
(*     weightings/ and aggregators/;                                       *)
(*   - PerformanceAnalysisOrchestrator (src/orchestrator.py) with          *)
(*     metrics/calculator, metrics/standardizer, metrics/strategy_         *)
(*     aggregator and metrics/portfolio_aggregator.                        *)
(*                                                                         *)
(* Numbers.  A float is modelled by an exact value <<n, d>>:               *)
(*   d > 0   the rational n/d in lowest terms;                             *)
(*   d = 0   n = 0: NaN;  n = 1: +inf;  n = -1: -inf;                      *)
(*   d < 0   null (a missing value of the data frame).                     *)
(* Rounding of binary floating point is not modelled.                      *)
(***************************************************************************)
EXTENDS Integers, Sequences, FiniteSets, TLC

\* ------------------------------------------------------------ arithmetic

Abs(x) == IF x < 0 THEN -x ELSE x

Sign(x) == IF x < 0 THEN -1 ELSE IF x > 0 THEN 1 ELSE 0

RECURSIVE GCD(_, _)
GCD(a, b) == IF b = 0 THEN a ELSE GCD(b, a % b)

\* n/d in lowest terms with a positive denominator (d # 0).
Norm(n, d) ==
    LET g == GCD(Abs(n), Abs(d))
        s == IF d < 0 THEN -1 ELSE 1
    IN  <<(s * n) \div g, (s * d) \div g>>

Num(k) == <<k, 1>>
NaN == <<0, 0>>
Null == <<0, -1>>

IsNull(x) == x[2] < 0
IsNaN(x) == x[2] = 0 /\ x[1] = 0
IsInf(x) == x[2] = 0 /\ x[1] # 0
IsFinite(x) == x[2] > 0

RNeg(a) == IF IsNull(a) THEN Null ELSE <<-a[1], a[2]>>

RAdd(a, b) ==
    IF IsNull(a) \/ IsNull(b) THEN Null
    ELSE IF IsNaN(a) \/ IsNaN(b) THEN NaN
    ELSE IF IsInf(a) /\ IsInf(b) THEN (IF a[1] = b[1] THEN a ELSE NaN)
    ELSE IF IsInf(a) THEN a
    ELSE IF IsInf(b) THEN b
    ELSE Norm(a[1] * b[2] + b[1] * a[2], a[2] * b[2])

RSub(a, b) == RAdd(a, RNeg(b))

RMul(a, b) ==
    IF IsNull(a) \/ IsNull(b) THEN Null
    ELSE IF IsNaN(a) \/ IsNaN(b) THEN NaN
    ELSE IF IsInf(a) \/ IsInf(b)
         THEN (IF a[1] = 0 \/ b[1] = 0 THEN NaN
               ELSE <<Sign(a[1]) * Sign(b[1]), 0>>)
    ELSE Norm(a[1] * b[1], a[2] * b[2])

\* Float division: x/0 is +-inf, 0/0 and inf/inf are NaN; nothing raises.
RDiv(a, b) ==
    IF IsNull(a) \/ IsNull(b) THEN Null
    ELSE IF IsNaN(a) \/ IsNaN(b) THEN NaN
    ELSE IF IsInf(a) /\ IsInf(b) THEN NaN
    ELSE IF IsInf(a) THEN <<a[1] * (IF b[1] < 0 THEN -1 ELSE 1), 0>>
    ELSE IF IsInf(b) THEN Num(0)
    ELSE IF b[1] = 0 THEN (IF a[1] = 0 THEN NaN ELSE <<Sign(a[1]), 0>>)
    ELSE Norm(a[1] * b[2], a[2] * b[1])

\* Order of finite values.
RLeq(a, b) == a[1] * b[2] <= b[1] * a[2]
RLess(a, b) == a[1] * b[2] < b[1] * a[2]

Range(s) == {s[i] : i \in 1..Len(s)}

NoDup(s) == \A i, j \in 1..Len(s) : s[i] = s[j] => i = j

RECURSIVE SumSet(_)
SumSet(S) ==
    IF S = {} THEN Num(0)
    ELSE LET x == CHOOSE y \in S : TRUE
         IN  RAdd(x[2], SumSet(S \ {x}))

\* ---------------------------------------------------------------- tables
\* A data frame is [cols |-> the column names in order, rows |-> the set of its
\* rows]; a row is a function from column name to value.  Key values (PM_ID,
\* Strategy_ID) are stored as Num(k).  The row order of a frame, which
\* group_by leaves unspecified, is kept only for the tables a run holds (see
\* Listed) and for the sorted ranking.

Frame(cols, rows) == [cols |-> cols, rows |-> rows]

HasCol(t, c) == c \in Range(t.cols)

\* polars min()/max(): nulls are skipped, an all-null column gives null.
ColVals(t, c) == {r[c] : r \in {q \in t.rows : ~IsNull(q[c])}}

ColMin(t, c) ==
    LET vals == ColVals(t, c)
    IN  IF vals = {} THEN Null
        ELSE CHOOSE x \in vals : \A y \in vals : RLeq(x, y)

ColMax(t, c) ==
    LET vals == ColVals(t, c)
    IN  IF vals = {} THEN Null
        ELSE CHOOSE x \in vals : \A y \in vals : RLeq(y, x)

\* polars mean(): the sum of the non-null values over their count.
ColMean(t, c) ==
    LET rs == {q \in t.rows : ~IsNull(q[c])}
    IN  IF rs = {} THEN Null
        ELSE RDiv(SumSet({<<r, r[c]>> : r \in rs}), Num(Cardinality(rs)))

\* with_columns(expr.alias(name)): replaces column `name`, or appends it.
\* `vals` gives the new value of every row.
WithColumn(t, name, vals) ==
    Frame(IF HasCol(t, name) THEN t.cols ELSE Append(t.cols, name),
          {[c \in DOMAIN r \cup {name} |-> IF c = name THEN vals[r] ELSE r[c]]
             : r \in t.rows})

\* A call either returns a value or raises.
Ok(v) == [ok |-> TRUE, val |-> v, err |-> "none"]
Raise(e) == [ok |-> FALSE, val |-> <<>>, err |-> e]

\* ------------------------------------------------- calculators (metric types)

POSITIVE == "Positive"
NEGATIVE == "Negative"

\* The class attribute `type` of the calculators of src/calculators/impl.
MetricTypeOf(name) ==
    CASE name = "ExcessReturn" -> POSITIVE
      [] name = "Volatility" -> NEGATIVE
      [] name = "TrackingError" -> NEGATIVE
      [] OTHER -> POSITIVE

\* CalculationPipeline.get_calculator_types: the dict {class name: type} in
\* insertion order, as a sequence of <<name, type>>.
TypesOf(names) == [i \in 1..Len(names) |-> <<names[i], MetricTypeOf(names[i])>>]

\* --------------------------------------- standardizers/impl/non_parametric.py

\* _positive_standardize: (x - min) / (max - min)
PositiveStandardize(x, lo, hi) == RDiv(RSub(x, lo), RSub(hi, lo))

\* Mutant: the direction inversion forgotten.
NegativeStandardizeNotInverted(x, lo, hi) == RDiv(RSub(x, lo), RSub(hi, lo))

\* _negative_standardize: (max - x) / (max - min)
NegativeStandardize(x, lo, hi) == RDiv(RSub(hi, x), RSub(hi, lo))

PositiveExpr(metric, r, t) ==
    PositiveStandardize(r[metric], ColMin(t, metric), ColMax(t, metric))

NegativeExpr(metric, r, t) ==
    NegativeStandardize(r[metric], ColMin(t, metric), ColMax(t, metric))

\* MinMaxStandardizer.standardize: metric_types is the dict {name: type} in
\* insertion order, given as a sequence of <<name, type>>.
RECURSIVE TypedStandardizeFrom(_, _, _)
TypedStandardizeFrom(t, metric_types, i) ==
    IF i > Len(metric_types) THEN Ok(t)
    ELSE LET metric == metric_types[i][1]
             type == metric_types[i][2]
             pos == [r \in t.rows |-> PositiveExpr(metric, r, t)]
             neg == [r \in t.rows |-> NegativeExpr(metric, r, t)]
         IN  IF type = POSITIVE
             THEN TypedStandardizeFrom(WithColumn(t, metric, pos), metric_types, i + 1)
             ELSE IF type = NEGATIVE
             THEN TypedStandardizeFrom(WithColumn(t, metric, neg), metric_types, i + 1)
             ELSE Raise("ValueError: Invalid metric type")

\* Mutant: the standardized values written to new columns, not in place.
TypedStandardizeAppending(t, metric_types) ==
    LET out == TypedStandardizeFrom(t, metric_types, 1)
    IN  IF out.ok
        THEN Ok(Frame(out.val.cols \o [i \in 1..Len(metric_types) |-> metric_types[i][1] \o "_std"],
                      out.val.rows))
        ELSE out

TypedStandardize(t, metric_types) == TypedStandardizeFrom(t, metric_types, 1)

\* ------------------------------------------------ metrics/standardizer/*.py

StandardizedName(column) == column \o "_standardized"

MinMaxExpr(column, r, t) ==
    RDiv(RSub(r[column], ColMin(t, column)),
         RSub(ColMax(t, column), ColMin(t, column)))

\* metrics/standardizer MinMaxStandardizer.standardize: one new column
\* "<column>_standardized" per metric column; the input columns stay.
RECURSIVE MinMaxStandardizeFrom(_, _, _)
MinMaxStandardizeFrom(t, metric_columns, i) ==
    IF i > Len(metric_columns) THEN t
    ELSE LET column == metric_columns[i]
             e == [r \in t.rows |-> MinMaxExpr(column, r, t)]
         IN  MinMaxStandardizeFrom(WithColumn(t, StandardizedName(column), e),
                                   metric_columns, i + 1)

MinMaxStandardize(t, metric_columns) == MinMaxStandardizeFrom(t, metric_columns, 1)

\* Sample variance (ddof = 1) of a column: null for fewer than two values.
ColVar(t, c) ==
    LET rs == {q \in t.rows : ~IsNull(q[c])}
        m == ColMean(t, c)
        sq(r) == RMul(RSub(r[c], m), RSub(r[c], m))
    IN  IF Cardinality(rs) < 2 THEN Null
        ELSE RDiv(SumSet({<<r, sq(r)>> : r \in rs}), Num(Cardinality(rs) - 1))

\* (x - mean) / std.  std is the square root of the sample variance v, so the
\* quotient is kept exactly as <<dev_n, dev_d, v_n, v_d>>, standing for
\* dev / sqrt(v); a zero std gives 0/0 = NaN and a null std gives null.
ZScoreExpr(column, r, t) ==
    LET dev == RSub(r[column], ColMean(t, column))
        v == ColVar(t, column)
    IN  IF IsNull(v) \/ IsNull(dev) THEN Null
        ELSE IF v[1] = 0 THEN RDiv(dev, Num(0))
        ELSE <<dev[1], dev[2], v[1], v[2]>>

\* ZScoreStandardizer.standardize
RECURSIVE ZScoreStandardizeFrom(_, _, _)
ZScoreStandardizeFrom(t, metric_columns, i) ==
    IF i > Len(metric_columns) THEN t
    ELSE LET column == metric_columns[i]
             e == [r \in t.rows |-> ZScoreExpr(column, r, t)]
         IN  ZScoreStandardizeFrom(WithColumn(t, StandardizedName(column), e),
                                   metric_columns, i + 1)

ZScoreStandardize(t, metric_columns) == ZScoreStandardizeFrom(t, metric_columns, 1)

\* -------------------------------------------- metrics/strategy_aggregator/*.py
\* A weight map (dict) is a function from metric names to weights.

\* weights.get(col, 0.0)
WeightsGet(weights, col) == IF col \in DOMAIN weights THEN weights[col] ELSE Num(0)

\* sum(weights.values())
WeightsSum(weights) == SumSet({<<c, weights[c]>> : c \in DOMAIN weights})

\* sum(pl.col(col).mul(weights.get(col, 0.0)) for col in metric_columns), for
\* row r: a left fold that starts from 0.
RECURSIVE WeightedSumFrom(_, _, _, _, _)
WeightedSumFrom(r, metric_columns, weights, i, acc) ==
    IF i > Len(metric_columns) THEN acc
    ELSE LET col == metric_columns[i]
         IN  WeightedSumFrom(r, metric_columns, weights, i + 1,
                             RAdd(acc, RMul(r[col], WeightsGet(weights, col))))

\* Mutant: the weights ignored, the metric values summed as they are.
WeightedSumUnweighted(r, metric_columns, weights) ==
    WeightedSumFrom(r, metric_columns, [c \in Range(metric_columns) |-> Num(1)], 1, Num(0))

\* The value of weighted_sum_expr in row r; an empty metric list gives the
\* literal 0.
WeightedSumExpr(r, metric_columns, weights) ==
    WeightedSumFrom(r, metric_columns, weights, 1, Num(0))

\* WeightedSumScoreAggregator._aggregate
WeightedSumAggregate(data, metric_columns, weights) ==
    WithColumn(data, "Strategy_Score",
               [r \in data.rows |-> WeightedSumExpr(r, metric_columns, weights)])

\* Mutant: negative weights let through.
CheckWeightsNoSignCheck(weights, metric_columns) ==
    IF DOMAIN weights = {}
    THEN Raise("ValueError: Weights dictionary cannot be empty")
    ELSE IF DOMAIN weights # Range(metric_columns)
    THEN Raise("ValueError: Weights keys must match metric columns exactly")
    ELSE IF ~(RLeq(<<99, 100>>, WeightsSum(weights)) /\ RLeq(WeightsSum(weights), <<101, 100>>))
    THEN Raise("ValueError: Weights must sum up to 1")
    ELSE Ok(<<>>)

\* StrategyScoreAggregator._check_weights
CheckWeights(weights, metric_columns) ==
    IF DOMAIN weights = {}
    THEN Raise("ValueError: Weights dictionary cannot be empty")
    ELSE IF DOMAIN weights # Range(metric_columns)
    THEN Raise("ValueError: Weights keys must match metric columns exactly")
    ELSE IF ~(RLeq(<<99, 100>>, WeightsSum(weights)) /\ RLeq(WeightsSum(weights), <<101, 100>>))
    THEN Raise("ValueError: Weights must sum up to 1")
    ELSE IF \E c \in DOMAIN weights : RLess(weights[c], Num(0))
    THEN Raise("ValueError: All weights must be positive")
    ELSE Ok(<<>>)

\* StrategyScoreAggregator._validate_input
ValidateInput(data, metric_columns) ==
    LET missing_cols == {c \in Range(metric_columns) : ~HasCol(data, c)}
    IN  IF missing_cols # {}
        THEN Raise("ValueError: Missing columns in data")
        ELSE Ok(<<>>)

\* StrategyScoreAggregator.aggregate: what it returns or raises (res) and the
\* methods it has invoked, in order (calls).
Aggregate(data, metric_columns, weights) ==
    LET v == ValidateInput(data, metric_columns)
        c == CheckWeights(weights, metric_columns)
    IN  IF ~v.ok THEN [res |-> v, calls |-> <<"_validate_input">>]
        ELSE IF ~c.ok THEN [res |-> c, calls |-> <<"_validate_input", "_check_weights">>]
        ELSE [res |-> Ok(WeightedSumAggregate(data, metric_columns, weights)),
              calls |-> <<"_validate_input", "_check_weights", "_aggregate">>]

\* -------------------------------------- aggregators/strategy_aggregator/*.py

\* WeightedSumScoreAggregator.expr, evaluated in row r.
expr(r, metric_columns, weights) ==
    WeightedSumFrom(r, metric_columns, weights, 1, Num(0))

\* ------------------------------------------------------ grouped aggregation

KeyCols == <<"PM_ID", "Strategy_ID">>

\* The join condition on the keys: a null key matches nothing, not even
\* another null (join_nulls is left at its default).
SameKeyCols(q, r) == \A c \in Range(KeyCols) : ~IsNull(q[c]) /\ q[c] = r[c]

\* The exact square root of a rational that is a perfect square (the data sets
\* below are chosen so that every variance is one); sqrt(null) is null.
ISqrt(n) == CHOOSE k \in 0..n : k * k = n

RSqrt(q) == IF IsNull(q) THEN Null ELSE <<ISqrt(q[1]), ISqrt(q[2])>>

\* group_by(by): the distinct key combinations, and the rows of one group.
GroupKeys(t, by) == {[c \in Range(by) |-> r[c]] : r \in t.rows}

GroupOf(t, g) == Frame(t.cols, {r \in t.rows : \A c \in DOMAIN g : r[c] = g[c]})

\* The frame with the column "diff" = Return - Benchmark_Return.
WithDiff(t) ==
    WithColumn(t, "diff", [r \in t.rows |-> RSub(r["Return"], r["Benchmark_Return"])])

\* std() * np.sqrt(12) of a column: sqrt(12 * sample variance).
AnnualizedStd(t, c) == RSqrt(RMul(Num(12), ColVar(t, c)))

\* ------------------------------------------------------- calculators/*.py

\* ExcessReturn.expression: (Return - Benchmark_Return).mean()
ExcessReturnExpression(g) == ColMean(WithDiff(g), "diff")

\* Volatility.expression, annualize = True: Return.std() * sqrt(12)
VolatilityExpression(g) == AnnualizedStd(g, "Return")

\* TrackingError.expression, annualize = True
TrackingErrorExpression(g) == AnnualizedStd(WithDiff(g), "diff")

\* i.expression() of the calculator of class `name`, evaluated on the rows g
\* of one group.
Expression(name, g) ==
    CASE name = "ExcessReturn" -> ExcessReturnExpression(g)
      [] name = "Volatility" -> VolatilityExpression(g)
      [] name = "TrackingError" -> TrackingErrorExpression(g)

\* f"{names}" of a list of column names: "['PM_ID', 'Strategy_ID']".
RECURSIVE ReprFrom(_, _)
ReprFrom(names, i) ==
    IF i > Len(names) THEN ""
    ELSE "'" \o names[i] \o "'" \o (IF i < Len(names) THEN ", " ELSE "")
           \o ReprFrom(names, i + 1)

Repr(names) == "[" \o ReprFrom(names, 1) \o "]"

\* CalculationPipeline._validate_input
CalculationValidateInput(data, group_by_columns) ==
    LET missing_group_cols == SelectSeq(group_by_columns, LAMBDA c : ~HasCol(data, c))
    IN  IF missing_group_cols # <<>>
        THEN Raise("ValueError: Missing grouping columns in data: "
                     \o Repr(missing_group_cols))
        ELSE Ok(<<>>)

\* Mutant: grouped by the date as well, so every observation is a group.
CalculationPipelineRunPerRow(calculators, group_by_columns, data) ==
    LET by == Append(group_by_columns, "Date")
    IN  IF \E c \in Range(group_by_columns) : ~HasCol(data, c)
        THEN Raise("ValueError: Missing grouping columns in data")
        ELSE Ok(Frame(group_by_columns \o calculators,
                      {[c \in Range(group_by_columns) \cup Range(calculators) |->
                          IF c \in Range(group_by_columns) THEN g[c]
                          ELSE Expression(c, GroupOf(data, g))]
                         : g \in GroupKeys(data, by)}))

\* CalculationPipeline.run: one row per group, one column per calculator,
\* named after the calculator's class.
CalculationPipelineRun(calculators, group_by_columns, data) ==
    LET v == CalculationValidateInput(data, group_by_columns)
    IN  IF ~v.ok THEN v
        ELSE Ok(Frame(group_by_columns \o calculators,
                      {[c \in Range(group_by_columns) \cup Range(calculators) |->
                          IF c \in Range(group_by_columns) THEN g[c]
                          ELSE Expression(c, GroupOf(data, g))]
                         : g \in GroupKeys(data, group_by_columns)}))

\* ------------------------------------------------- metrics/calculator/*.py

\* The calculators of risk_metrics.py and ratio_metrics.py, by their factory
\* name; "Sharpe_Ratio(risk_free_rate)" is the Sharpe calculator made with
\* the risk-free rate of the session instead of the default.
SharpeCalculators == {"Sharpe_Ratio", "Sharpe_Ratio(risk_free_rate)"}

\* The column a calculator writes: the alias of its _calculate_metric.
MetricName(name) == IF name \in SharpeCalculators THEN "Sharpe_Ratio" ELSE name

\* risk_free_rate: 0.02 by default, 0.05 chosen in the session.
DefaultRiskFreeRate == <<1, 50>>
SessionRiskFreeRate == <<1, 20>>

RiskFreeRate(name) ==
    IF name = "Sharpe_Ratio" THEN DefaultRiskFreeRate ELSE SessionRiskFreeRate

\* The columns a calculator requires and the value it gives for the rows g
\* of one group.
RequiredColumns(name) ==
    CASE name = "Volatility" -> {"Return"}
      [] name = "Tracking_Error" -> {"Return", "Benchmark_Return"}
      [] name \in SharpeCalculators -> {"Return"}
      [] name = "Information_Ratio" -> {"Return", "Benchmark_Return"}

\* The order in which the set required_columns is iterated.  Python fixes
\* none; no input of the model lacks more than one required column.
RequiredColumnsOrder(name) ==
    IF name \in {"Tracking_Error", "Information_Ratio"}
    THEN <<"Return", "Benchmark_Return">> ELSE <<"Return">>

\* SharpeRatioCalculator._calculate_metric:
\* (mean - rate / 12) / std * sqrt(12) = (12 * mean - rate) / (std * sqrt(12))
SharpeRatio(name, g) ==
    RDiv(RSub(RMul(Num(12), ColMean(g, "Return")), RiskFreeRate(name)),
         AnnualizedStd(g, "Return"))

\* InformationRatioCalculator._calculate_metric:
\* (mean(Return) - mean(Benchmark_Return)) / std(diff) * sqrt(12)
\*   = 12 * (mean(Return) - mean(Benchmark_Return)) / (std(diff) * sqrt(12))
InformationRatio(g) ==
    RDiv(RMul(Num(12), RSub(ColMean(g, "Return"), ColMean(g, "Benchmark_Return"))),
         AnnualizedStd(WithDiff(g), "diff"))

CalculateMetric(name, g) ==
    CASE name = "Volatility" -> AnnualizedStd(g, "Return")
      [] name = "Tracking_Error" -> AnnualizedStd(WithDiff(g), "diff")
      [] name \in SharpeCalculators -> SharpeRatio(name, g)
      [] name = "Information_Ratio" -> InformationRatio(g)

\* MetricCalculator._validate_input: the required columns are looked at
\* first, the grouping columns second.
CalculatorValidateInput(name, data) ==
    LET missing_cols == SelectSeq(RequiredColumnsOrder(name), LAMBDA c : ~HasCol(data, c))
        missing_group_cols == SelectSeq(KeyCols, LAMBDA c : ~HasCol(data, c))
    IN  IF missing_cols # <<>>
        THEN Raise("ValueError: Missing required columns in data: " \o Repr(missing_cols))
        ELSE IF missing_group_cols # <<>>
        THEN Raise("ValueError: Missing grouping columns in data: "
                     \o Repr(missing_group_cols))
        ELSE Ok(<<>>)

\* MetricCalculator.calculate: the keys and the one metric column.
Calculate(name, data) ==
    LET v == CalculatorValidateInput(name, data)
        column == MetricName(name)
    IN  IF ~v.ok THEN v
        ELSE Ok(Frame(Append(KeyCols, column),
                      {[c \in Range(KeyCols) \cup {column} |->
                          IF c = column THEN CalculateMetric(name, GroupOf(data, g))
                          ELSE g[c]]
                         : g \in GroupKeys(data, KeyCols)}))

\* The name a column of the right side gets in a join: one the left side
\* already has is given the suffix "_right".
Suffixed(left, c) == IF HasCol(left, c) THEN c \o "_right" ELSE c

\* left.join(right, on=["PM_ID", "Strategy_ID"], how="outer") followed by
\* drop(["PM_ID_right", "Strategy_ID_right"]): a row for every key of either
\* side; a key of the right side only keeps null in the key columns.
OuterJoin(left, right) ==
    LET metrics == SelectSeq(right.cols, LAMBDA c : c \notin Range(KeyCols))
        newcols == [i \in 1..Len(metrics) |-> Suffixed(left, metrics[i])]
        all == Range(left.cols) \cup Range(newcols)
        source(c) == CHOOSE m \in Range(metrics) : Suffixed(left, m) = c
        matched(l) == {r \in right.rows : SameKeyCols(l, r)}
    IN  Frame(left.cols \o newcols,
              {[c \in all |-> IF c \in Range(left.cols) THEN pr[1][c] ELSE pr[2][source(c)]]
                 : pr \in {x \in left.rows \X right.rows : SameKeyCols(x[1], x[2])}}
              \cup {[c \in all |-> IF c \in Range(left.cols) THEN l[c] ELSE Null]
                 : l \in {x \in left.rows : matched(x) = {}}}
              \cup {[c \in all |-> IF c \in Range(left.cols) THEN Null ELSE r[source(c)]]
                 : r \in {y \in right.rows : \A l \in left.rows : ~SameKeyCols(l, y)}})

\* The loop of CalculationPipeline.run over calculators i..: a calculator
\* that raises is logged and skipped.
RECURSIVE CalculateAllFrom(_, _, _)
CalculateAllFrom(calculators, data, i) ==
    IF i > Len(calculators) THEN <<>>
    ELSE LET result == Calculate(calculators[i], data)
             rest == CalculateAllFrom(calculators, data, i + 1)
         IN  IF result.ok THEN <<result.val>> \o rest ELSE rest

RECURSIVE JoinAllFrom(_, _, _)
JoinAllFrom(combined_results, results, i) ==
    IF i > Len(results) THEN combined_results
    ELSE JoinAllFrom(OuterJoin(combined_results, results[i]), results, i + 1)

\* metrics/calculator CalculationPipeline.run
MetricsCalculationPipelineRun(calculators, data) ==
    LET results == CalculateAllFrom(calculators, data, 1)
    IN  IF results = <<>>
        THEN Raise("ValueError: No metrics were successfully calculated")
        ELSE Ok(JoinAllFrom(results[1], results, 2))

\* The steps of metrics/calculator CalculationPipeline.run on calculators
\* i..: every calculate validates, and computes only after a validation that
\* passed.
RECURSIVE CalculationCallsFrom(_, _, _)
CalculationCallsFrom(calculators, data, i) ==
    IF i > Len(calculators) THEN <<>>
    ELSE (IF CalculatorValidateInput(calculators[i], data).ok
          THEN <<"_validate_input", "_calculate_metric">>
          ELSE <<"_validate_input">>)
           \o CalculationCallsFrom(calculators, data, i + 1)

\* ------------------------------------------------------- metrics/base.py

\* calculate_for_group of metrics/impl: pandas gives NaN where polars gives
\* null.
CalculateForGroup(name, g) ==
    LET v == Expression(name, g)
    IN  IF IsNull(v) THEN NaN ELSE v

\* The columns calculate_for_group reads.
GroupColumns(name) ==
    IF name = "Volatility" THEN {"Return"} ELSE {"Return", "Benchmark_Return"}

\* MetricCalculator.calculate_all_groups: groupby(["PM_ID", "Strategy_ID"])
\* .apply(calculate_for_group), the result under the class name, then
\* reset_index.  A column that is not there is a KeyError; groupby leaves
\* out the rows with a missing key (dropna is left at its default).
CalculateAllGroups(name, data) ==
    IF \E c \in Range(KeyCols) \cup GroupColumns(name) : ~HasCol(data, c)
    THEN Raise("KeyError")
    ELSE Ok(Frame(Append(KeyCols, name),
                  {[c \in Range(KeyCols) \cup {name} |->
                      IF c = name THEN CalculateForGroup(name, GroupOf(data, g))
                      ELSE g[c]]
                     : g \in {k \in GroupKeys(data, KeyCols) :
                                \A c \in Range(KeyCols) : ~IsNull(k[c])}}))

\* ------------------------------------------------------ metrics/pipeline.py

\* final_df.merge(df, on=["PM_ID", "Strategy_ID"], how="outer"): one row for
\* every key of either side, the key in the key columns, NaN where a side
\* has no row for the key.
Merge(left, right) ==
    LET newcols == SelectSeq(right.cols, LAMBDA c : c \notin Range(KeyCols))
        all == Range(left.cols) \cup Range(newcols)
        keyOf(r) == [c \in Range(KeyCols) |-> r[c]]
        keys == {keyOf(r) : r \in left.rows \cup right.rows}
        value(rows, k, c) ==
            IF \E r \in rows : keyOf(r) = k
            THEN (CHOOSE r \in rows : keyOf(r) = k)[c] ELSE NaN
    IN  Frame(left.cols \o newcols,
              {[c \in all |->
                  IF c \in Range(KeyCols) THEN k[c]
                  ELSE IF c \in Range(left.cols) THEN value(left.rows, k, c)
                  ELSE value(right.rows, k, c)] : k \in keys})

RECURSIVE MergeAllFrom(_, _, _)
MergeAllFrom(final_df, results, i) ==
    IF i > Len(results) THEN final_df
    ELSE MergeAllFrom(Merge(final_df, results[i].val), results, i + 1)

\* CalculationPipeline.run of metrics/pipeline.py: the error of a calculator
\* leaves run; results[0] of an empty list is an IndexError.
MetricsPipelineRun(calculators, data) ==
    LET results == [i \in 1..Len(calculators) |-> CalculateAllGroups(calculators[i], data)]
        failed == {i \in 1..Len(calculators) : ~results[i].ok}
    IN  IF failed # {} THEN results[CHOOSE i \in failed : \A j \in failed : i <= j]
        ELSE IF results = <<>> THEN Raise("IndexError")
        ELSE Ok(MergeAllFrom(results[1].val, results, 2))

\* --------------------------------------------------------------- data/*.py

\* DataSource.fetch_data: a source is what reading it gives, a frame or the
\* error of a file that is not there.
FetchData(source) == source

\* Mutant: the validated columns selected, the other columns dropped.
ValidateSelecting(lf) ==
    LET checked == <<"PM_ID", "Strategy_ID", "Return", "Benchmark_Return", "Excess_Return">>
    IN  Frame(checked,
              {[c \in Range(checked) |-> r[c]] :
                 r \in {q \in lf.rows :
                          /\ IsFinite(q["PM_ID"]) /\ IsFinite(q["Strategy_ID"])
                          /\ RLeq(Num(-1), q["Return"])
                          /\ RLeq(Num(-1), q["Benchmark_Return"])
                          /\ RLeq(Num(-1), q["Excess_Return"])}})

\* DataValidator.validate: keeps the rows with well-formed ids and returns of
\* at least -1.  An id Num(k) stands for "PM_<k>" or "S_<k>".
Validate(lf) ==
    Frame(lf.cols,
          {r \in lf.rows :
             /\ IsFinite(r["PM_ID"]) /\ IsFinite(r["Strategy_ID"])
             /\ RLeq(Num(-1), r["Return"])
             /\ RLeq(Num(-1), r["Benchmark_Return"])
             /\ RLeq(Num(-1), r["Excess_Return"])})

\* The rolling steps: the column read, the operation and the alias of the
\* column written; the window is 12 rows.
RollingSteps ==
    {"RollingMeanReturnStep", "RollingMeanBenchmarkReturnStep",
     "RollingStdReturnStep", "RollingStdBenchmarkReturnStep"}

RollingWindow == 12

StepColumn(step) ==
    IF step \in {"RollingMeanReturnStep", "RollingStdReturnStep"}
    THEN "Return" ELSE "Benchmark_Return"

StepOperation(step) ==
    IF step \in {"RollingMeanReturnStep", "RollingMeanBenchmarkReturnStep"}
    THEN "mean" ELSE "std"

StepAlias(step) ==
    CASE step = "RollingMeanReturnStep" -> "Rolling_12M_Return"
      [] step = "RollingMeanBenchmarkReturnStep" -> "Rolling_12M_Benchmark_Return"
      [] step = "RollingStdReturnStep" -> "Rolling_12M_Volatility"
      [] step = "RollingStdBenchmarkReturnStep" -> "Rolling_12M_Benchmark_Volatility"

\* rolling_mean / rolling_std(window_size).over(["PM_ID", "Strategy_ID"]) in
\* row r: null until the group has window_size rows up to r (min_periods is
\* the window size), then the mean or the sample standard deviation of the
\* last window_size of them.  The rows of a group are taken in the order of
\* their dates, the order of the data as fetched and as SortStep leaves it.
RollingValue(step, r, lf) ==
    LET upto == {q \in lf.rows : /\ q["PM_ID"] = r["PM_ID"]
                                   /\ q["Strategy_ID"] = r["Strategy_ID"]
                                   /\ RLeq(q["Date"], r["Date"])}
        window == {q \in upto :
                     Cardinality({x \in upto : RLess(q["Date"], x["Date"])}) < RollingWindow}
    IN  IF Cardinality(upto) < RollingWindow THEN Null
        ELSE IF StepOperation(step) = "mean"
        THEN ColMean(Frame(lf.cols, window), StepColumn(step))
        ELSE RSqrt(ColVar(Frame(lf.cols, window), StepColumn(step)))

\* PreprocessingStep.apply: SortStep reorders the rows, nothing else; a
\* rolling step writes its column with with_columns.
Apply(step, lf) ==
    IF step \in RollingSteps
    THEN WithColumn(lf, StepAlias(step), [r \in lf.rows |-> RollingValue(step, r, lf)])
    ELSE lf

\* DataPreprocessor.preprocess
RECURSIVE PreprocessFrom(_, _, _)
PreprocessFrom(steps, lf, i) ==
    IF i > Len(steps) THEN lf ELSE PreprocessFrom(steps, Apply(steps[i], lf), i + 1)

\* DataPipeline.run
DataPipelineRun(source, steps) ==
    LET data == FetchData(source)
    IN  IF ~data.ok THEN data
        ELSE Ok(PreprocessFrom(steps, Validate(data.val), 1))

\* ------------------------------------------- metrics/portfolio_aggregator/*.py

\* Mutant: grouped by strategy instead of by manager.
PMScoreAggregatePerStrategy(data) ==
    Frame(<<"PM_ID", "PM_Score">>,
          {[c \in {"PM_ID", "PM_Score"} |->
              IF c = "PM_ID" THEN r["PM_ID"] ELSE r["Strategy_Score"]]
             : r \in data.rows})

\* PMScoreAggregator.aggregate: the mean Strategy_Score of every PM_ID.
PMScoreAggregate(data) ==
    Frame(<<"PM_ID", "PM_Score">>,
          {[c \in {"PM_ID", "PM_Score"} |->
              IF c = "PM_ID" THEN g["PM_ID"]
              ELSE ColMean(GroupOf(data, g), "Strategy_Score")]
             : g \in GroupKeys(data, <<"PM_ID">>)})

\* ---------------------------------------- aggregators/portfolio_aggregator/*.py

\* The mean of a column that skips NaN and missing values (skipna); NaN when
\* nothing is left.
MeanSkipNa(t, c) ==
    LET rs == {q \in t.rows : ~IsNull(q[c]) /\ ~IsNaN(q[c])}
    IN  IF rs = {} THEN NaN
        ELSE RDiv(SumSet({<<r, r[c]>> : r \in rs}), Num(Cardinality(rs)))

\* PMScoreAggregator.aggregate: groupby("PM_ID"), the mean of StrategyScore,
\* renamed PMScore.
PMScoreAggregateSkipNa(data) ==
    Frame(<<"PM_ID", "PMScore">>,
          {[c \in {"PM_ID", "PMScore"} |->
              IF c = "PM_ID" THEN g["PM_ID"]
              ELSE MeanSkipNa(GroupOf(data, g), "StrategyScore")]
             : g \in GroupKeys(data, <<"PM_ID">>)})

\* ------------------------------------------------------------- ranking

\* The order rank() uses: NaN above every number.
ExtLess(a, b) ==
    IF IsNaN(a) THEN FALSE
    ELSE IF IsNaN(b) THEN TRUE
    ELSE IF IsInf(a) THEN a[1] < 0 /\ ~(IsInf(b) /\ b[1] < 0)
    ELSE IF IsInf(b) THEN b[1] > 0
    ELSE RLess(a, b)

\* rank(method="dense", descending=True): 1 + the number of distinct greater
\* values; null stays null.
DenseRank(x, vals) ==
    IF IsNull(x) THEN Null
    ELSE Num(1 + Cardinality({y \in vals : ExtLess(x, y)}))

\* scored_results.with_columns([... .alias("Rank")]).sort("Rank")
WithRank(scored_results) ==
    WithColumn(scored_results, "Rank",
               [r \in scored_results.rows |->
                  DenseRank(r["PM_Score"], ColVals(scored_results, "PM_Score"))])

\* The orders in which the rows S can be listed.
Perms(S) == {s \in [1..Cardinality(S) -> S] : Range(s) = S}

\* LazyFrame.sort(c): the row orders it can produce, ascending in c; rows with
\* the same value of c come in any order.
SortOrders(t, c) ==
    {s \in Perms(t.rows) :
        \A i, j \in 1..Len(s) : i < j => ~ExtLess(s[j][c], s[i][c])}

\* Mutant: ranks that count the rows with a greater score.
RankedAndSortedByCount(scored_results) ==
    LET ranked == WithColumn(scored_results, "Rank",
                     [r \in scored_results.rows |->
                        Num(1 + Cardinality({q \in scored_results.rows :
                                               ExtLess(r["PM_Score"], q["PM_Score"])}))])
    IN  {[cols |-> ranked.cols, rows |-> ranked.rows, order |-> s]
           : s \in SortOrders(ranked, "Rank")}

\* scored_results.with_columns([... .alias("Rank")]).sort("Rank"): the frames
\* it can produce, `order` listing the rows as the frame holds them.
RankedAndSorted(scored_results) ==
    LET ranked == WithRank(scored_results)
    IN  {[cols |-> ranked.cols, rows |-> ranked.rows, order |-> s]
           : s \in SortOrders(ranked, "Rank")}

\* --------------------------------------------------------- weightings/*.py

\* Mutant: every metric weighted 1.
EqualWeightingAllOnes(metric_data, metric_columns) ==
    IF Len(metric_columns) = 0
    THEN Raise("ValueError: No metrics to calculate weights for")
    ELSE Ok([metric \in Range(metric_columns) |-> Num(1)])

\* EqualWeighting.calculate_weights
EqualWeightingCalculateWeights(metric_data, metric_columns) ==
    IF Len(metric_columns) = 0
    THEN Raise("ValueError: No metrics to calculate weights for")
    ELSE Ok([metric \in Range(metric_columns) |-> Norm(1, Len(metric_columns))])

\* ---- weightings/impl/entropy.py
\* np.log is computed in fixed point, in thousandths, from the logarithms of
\* the primes, so that log(a*b) = log(a) + log(b) holds exactly.

\* 1000 * ln(p), rounded, for a prime p.
LnPrime(p) ==
    CASE p = 2 -> 693
      [] p = 3 -> 1099
      [] p = 5 -> 1609
      [] p = 7 -> 1946

\* 1000 * ln(k) for a positive integer k whose prime factors are 2, 3, 5, 7.
RECURSIVE LnInt(_)
LnInt(k) ==
    IF k = 1 THEN 0
    ELSE LET p == CHOOSE q \in {2, 3, 5, 7} : k % q = 0
         IN  LnPrime(p) + LnInt(k \div p)

\* np.log(x): NaN for NaN and for a negative x, -inf for 0.
Ln(x) ==
    IF IsNaN(x) \/ IsNull(x) THEN NaN
    ELSE IF IsInf(x) THEN (IF x[1] > 0 THEN x ELSE NaN)
    ELSE IF x[1] < 0 THEN NaN
    ELSE IF x[1] = 0 THEN <<-1, 0>>
    ELSE Norm(LnInt(x[1]) - LnInt(x[2]), 1000)

\* probs * np.log(probs) for the probability 1e-10 that stands in for 0:
\* -2.3e-9, which is 0 in thousandths.
TinyTerm == Num(0)

\* One element of probs * np.log(probs), probs being values / np.sum(values)
\* with 1e-10 in the place of 0.
EntropyTerm(v, total) ==
    LET prob == RDiv(v, total)
    IN  IF prob = Num(0) THEN TinyTerm ELSE RMul(prob, Ln(prob))

\* The entropy of one column:
\* -np.sum(probs * np.log(probs)) / np.log(len(values))
ColumnEntropy(metric_data, col) ==
    LET total == SumSet({<<r, r[col]>> : r \in metric_data.rows})
        terms == SumSet({<<r, EntropyTerm(r[col], total)>> : r \in metric_data.rows})
    IN  RDiv(RNeg(terms), Ln(Num(Cardinality(metric_data.rows))))

\* EntropyWeighting._calculate_entropy: collecting a column the frame does not
\* have raises.
CalculateEntropy(metric_data, metric_columns) ==
    IF \E c \in Range(metric_columns) : ~HasCol(metric_data, c)
    THEN Raise("ColumnNotFoundError")
    ELSE Ok([col \in Range(metric_columns) |-> ColumnEntropy(metric_data, col)])

\* EntropyWeighting._calculate_weights
EntropyWeights(entropies) ==
    LET diversities == [metric \in DOMAIN entropies |-> RSub(Num(1), entropies[metric])]
        total_diversity == WeightsSum(diversities)
    IN  [metric \in DOMAIN diversities |-> RDiv(diversities[metric], total_diversity)]

\* EntropyWeighting.calculate_weights: the metadata's diversity_degree divides
\* by len(entropies), which raises ZeroDivisionError when there is no metric.
EntropyWeightingCalculateWeights(metric_data, metric_columns) ==
    LET entropies == CalculateEntropy(metric_data, metric_columns)
    IN  IF ~entropies.ok THEN entropies
        ELSE IF DOMAIN entropies.val = {} THEN Raise("ZeroDivisionError")
        ELSE Ok(EntropyWeights(entropies.val))

\* --------------------------- aggregators/strategy_aggregator/base.py (absent)
\* StrategyScoreAggregator.aggregate of the ModelPipeline family is not in the
\* source tree; it is taken from the specification: the WeightMap invariants
\* (not empty, keys equal to the metric columns, no negative weight, sum
\* within 0.01 of 1) and the metric columns are checked, then the column
\* StrategyScore = expr is added.
WeightMapInvariant(weights, metric_columns) ==
    /\ DOMAIN weights # {}
    /\ DOMAIN weights = Range(metric_columns)
    /\ \A c \in DOMAIN weights : ~RLess(weights[c], Num(0))
    /\ RLeq(<<99, 100>>, WeightsSum(weights))
    /\ RLeq(WeightsSum(weights), <<101, 100>>)

ScoreAggregatorAggregate(data, metric_columns, weights) ==
    IF \E c \in Range(metric_columns) : ~HasCol(data, c)
    THEN Raise("SchemaError")
    ELSE IF ~WeightMapInvariant(weights, metric_columns)
    THEN Raise("WeightValidationError")
    ELSE Ok(WithColumn(data, "StrategyScore",
                       [r \in data.rows |-> expr(r, metric_columns, weights)]))

\* ------------------------------------------------------------- pipeline.py
\* A ModelPipeline object o: the fields __init__ sets.

\* An attribute that has not been assigned, and one that holds v.
Unset == [set |-> FALSE, val |-> <<>>]
Assigned(v) == [set |-> TRUE, val |-> v]

\* ModelPipeline.__init__
ModelPipelineInit(selected_metrics, weighting_method) ==
    [kind |-> "ModelPipeline",
     calculators |-> selected_metrics,
     metric_columns |-> selected_metrics,
     metric_types |-> TypesOf(selected_metrics),
     weighting_method |-> weighting_method]

\* ModelPipeline._calculate_metrics
CalculateMetrics(o, data) == CalculationPipelineRun(o.calculators, KeyCols, data)

\* ModelPipeline._standardize_metrics
StandardizeMetrics(o, data) == TypedStandardize(data, o.metric_types)

\* `if manual_weights:`: false for None and for an empty dict.
ManualWeightsTruthy(manual_weights) ==
    manual_weights.given /\ DOMAIN manual_weights.map # {}

\* self._weighting_method.calculate_weights(data, self._metric_columns)
WeightingMethodCalculateWeights(o, data) ==
    IF o.weighting_method = "EntropyWeighting"
    THEN EntropyWeightingCalculateWeights(data, o.metric_columns)
    ELSE EqualWeightingCalculateWeights(data, o.metric_columns)

\* Mutant: the weighting method's map returned whatever manual_weights is.
CalculateWeightsIgnoringManual(o, data, manual_weights) ==
    WeightingMethodCalculateWeights(o, data)

\* ModelPipeline._calculate_weights: manual_weights is [given, map]; `if
\* manual_weights:` is false for None and for an empty dict.
CalculateWeights(o, data, manual_weights) ==
    IF ManualWeightsTruthy(manual_weights)
    THEN Ok(manual_weights.map)
    ELSE WeightingMethodCalculateWeights(o, data)

\* Mutant: the scores computed from expr with no validation of the weights.
AggregateStrategyScoresUnchecked(o, data, weights) ==
    Ok(WithColumn(data, "StrategyScore",
                  [r \in data.rows |-> expr(r, o.metric_columns, weights)]))

\* ModelPipeline._aggregate_strategy_scores
AggregateStrategyScores(o, data, weights) ==
    ScoreAggregatorAggregate(data, o.metric_columns, weights)

\* ModelPipeline._aggregate_pm_scores
AggregatePMScores(o, data) == Ok(PMScoreAggregateSkipNa(data))

\* ---------------------------------------------------------- orchestrator.py

\* PerformanceAnalysisOrchestrator.__init__, as instantiate_orchestrator
\* wires it: a data pipeline over one source, the calculators of the
\* selected metrics, the min-max standardizer, the weighted-sum and PM
\* aggregators.
OrchestratorInit(source, steps, selected_metrics) ==
    [kind |-> "Orchestrator",
     source |-> source,
     steps |-> steps,
     calculators |-> selected_metrics]

\* standardizer.standardize on a lazy frame: an unknown column is not
\* reported here; it makes the resulting frame one whose schema cannot be
\* resolved.  The result is Ok(frame), or Raise(the error resolving raises).
StandardizeLazy(data, metric_columns) ==
    IF \E c \in Range(metric_columns) : ~HasCol(data, c)
    THEN Raise("ColumnNotFoundError")
    ELSE Ok(MinMaxStandardize(data, metric_columns))

\* strategy_aggregator.aggregate on such a lazy frame: collect_schema() in
\* _validate_input raises what resolving the frame raises.
AggregateLazy(lf, metric_columns, weights) ==
    IF ~lf.ok THEN lf ELSE Aggregate(lf.val, metric_columns, weights).res

\* Mutant: the error swallowed and False returned.
RunAnalysisExceptReturnsFalse(e) == Ok(FALSE)

\* `except Exception as e: raise e`
RunAnalysisExcept(e) == Raise(e)

\* ================================================================ state
\* One call of a library function:
\*   op, arg, res   which function, its arguments, what it returned or raised;
\*   calls          the methods the call has invoked, in order.
\*                  During a ModelPipeline run: the calls of the weighting
\*                  method the run has made.
\* One pipeline object (a ModelPipeline or a PerformanceAnalysisOrchestrator):
\*   obj        its kind and what it was constructed with;
\*   attrs      its public result attributes;
\*   pc         "idle", or the stage the run in progress executes next;
\*   run        the run in progress or last finished: its number and arguments;
\*   local      the local variables of the run in progress;
\*   result     what the last finished run returned or raised to its caller.
\* History, kept for the properties only:
\*   trace      the stages the current run has completed, in order;
\*   raised     the stage of the current run that raised, and its error;
\*   origin     for every attribute, the number of the run that assigned it;
\*   completed  the numbers of the runs that returned normally.
VARIABLES op, arg, res, calls, obj, attrs, pc, run, local, result,
          trace, raised, origin, completed

fnVars == <<op, arg, res, calls>>
pipeVars == <<obj, attrs, pc, run, local, result, trace, raised, origin, completed>>
vars == <<op, arg, res, calls, obj, attrs, pc, run, local, result,
          trace, raised, origin, completed>>

NotCalled == Raise("not called")

NoObject == [kind |-> "none"]
NoRun == [id |-> 0]
NoRaise == [stage |-> "none", err |-> "none"]

\* No pipeline object exists: the library functions are called on their own.
NoPipeline ==
    /\ obj = NoObject /\ attrs = <<>> /\ pc = "idle" /\ run = NoRun
    /\ local = <<>> /\ result = NotCalled /\ trace = <<>> /\ raised = NoRaise
    /\ origin = <<>> /\ completed = {}

\* ------------------------------------------------------------ input bounds

PMs == {1, 2}
Strategies == {1, 2}
Keys == PMs \X Strategies

\* The values a metric takes in the tables given to the library functions.
MetricValues == {0, 1, 2}

\* The largest number of rows of such a table.
MaxRows == 3

KeySets == {K \in SUBSET Keys : K # {} /\ Cardinality(K) <= MaxRows}

\* A metric table of the ModelPipeline family: the two key columns and one
\* column per calculator class.
MetricRow(k, e, v) ==
    [c \in {"PM_ID", "Strategy_ID", "ExcessReturn", "Volatility"} |->
        CASE c = "PM_ID" -> Num(k[1])
          [] c = "Strategy_ID" -> Num(k[2])
          [] c = "ExcessReturn" -> Num(e)
          [] OTHER -> Num(v)]

MetricTables ==
    UNION {{Frame(KeyCols \o <<"ExcessReturn", "Volatility">>,
                  {MetricRow(k, f[k][1], f[k][2]) : k \in K})
              : f \in [K -> MetricValues \X MetricValues]} : K \in KeySets}

MetricNameLists == {<<"ExcessReturn", "Volatility">>, <<"Volatility">>, <<"ExcessReturn">>}

\* ------------------------------------------------ specification: standardizers

InitStd ==
    /\ op = "input"
    /\ arg \in [table : MetricTables, names : MetricNameLists]
    /\ res = NotCalled
    /\ calls = <<>>
    /\ NoPipeline

CallTypedMinMax ==
    /\ op = "input"
    /\ op' = "TypedMinMax"
    /\ res' = TypedStandardize(arg.table, TypesOf(arg.names))
    /\ UNCHANGED <<arg, calls, pipeVars>>

CallMinMax ==
    /\ op = "input"
    /\ op' = "MinMax"
    /\ res' = Ok(MinMaxStandardize(arg.table, arg.names))
    /\ UNCHANGED <<arg, calls, pipeVars>>

CallZScore ==
    /\ op = "input"
    /\ op' = "ZScore"
    /\ res' = Ok(ZScoreStandardize(arg.table, arg.names))
    /\ UNCHANGED <<arg, calls, pipeVars>>

NextStd == CallTypedMinMax \/ CallMinMax \/ CallZScore

SpecStd == InitStd /\ [][NextStd]_vars

\* ----------------------------------------------------- claims: standardizers

SameKey(q, r) == q["PM_ID"] = r["PM_ID"] /\ q["Strategy_ID"] = r["Strategy_ID"]

KeysOf(t) == {<<r["PM_ID"], r["Strategy_ID"]>> : r \in t.rows}

\* r holds the least (greatest) value of column m of table t.
HoldsMin(r, t, m) == \A q \in t.rows : RLeq(r[m], q[m])
HoldsMax(r, t, m) == \A q \in t.rows : RLeq(q[m], r[m])

InUnitInterval(x) == IsFinite(x) /\ RLeq(Num(0), x) /\ RLeq(x, Num(1))

\* C6: min-max standardization of the ModelPipeline family honours the metric
\* direction.  For every named column with max > min, the output value y of a
\* row with raw value x satisfies y * (max - min) = x - min when the metric is
\* POSITIVE and y * (max - min) = max - x when it is NEGATIVE; y lies in
\* [0, 1]; for a NEGATIVE column the row holding the minimum gets 1 and the
\* row holding the maximum gets 0.
C6_MinMaxHonoursDirection ==
    op = "TypedMinMax" =>
      /\ res.ok
      /\ \A i \in 1..Len(arg.names) :
           LET m == arg.names[i] IN
           \A rlo, rhi \in arg.table.rows :
             (HoldsMin(rlo, arg.table, m) /\ HoldsMax(rhi, arg.table, m)
                /\ RLess(rlo[m], rhi[m])) =>
               \A r \in arg.table.rows : \A q \in res.val.rows :
                 SameKey(q, r) =>
                   /\ InUnitInterval(q[m])
                   /\ MetricTypeOf(m) = POSITIVE =>
                        RMul(q[m], RSub(rhi[m], rlo[m])) = RSub(r[m], rlo[m])
                   /\ MetricTypeOf(m) = NEGATIVE =>
                        /\ RMul(q[m], RSub(rhi[m], rlo[m])) = RSub(rhi[m], r[m])
                        /\ r[m] = rlo[m] => q[m] = Num(1)
                        /\ r[m] = rhi[m] => q[m] = Num(0)

\* Witness of C6: both directions standardized over three rows, the NEGATIVE
\* column holding 0, 1 and 2, so that its rows get 1, 1/2 and 0.
C6_Witness ==
    /\ op = "TypedMinMax"
    /\ arg.names = <<"ExcessReturn", "Volatility">>
    /\ \E r0, r1, r2 \in arg.table.rows :
         /\ r0["Volatility"] = Num(0) /\ r1["Volatility"] = Num(1)
         /\ r2["Volatility"] = Num(2)
         /\ r0["ExcessReturn"] = Num(0) /\ r2["ExcessReturn"] = Num(2)
         /\ \E q0, q1, q2 \in res.val.rows :
              /\ SameKey(q0, r0) /\ SameKey(q1, r1) /\ SameKey(q2, r2)
              /\ q0["Volatility"] = Num(1) /\ q1["Volatility"] = <<1, 2>>
              /\ q2["Volatility"] = Num(0)
              /\ q0["ExcessReturn"] = Num(0) /\ q2["ExcessReturn"] = Num(1)

\* The column a standardizer writes for metric m.
OutCol(m) == IF op = "TypedMinMax" THEN m ELSE StandardizedName(m)

\* C7: for a column whose max equals its min (a single strategy group
\* included), min-max standardization outputs 0.5 in every row and no NaN.
C7_DegenerateColumnGetsHalf ==
    op \in {"TypedMinMax", "MinMax"} =>
      \A i \in 1..Len(arg.names) :
        LET m == arg.names[i] IN
        ColMin(arg.table, m) = ColMax(arg.table, m) =>
          \A q \in res.val.rows : q[OutCol(m)] = <<1, 2>>

AggKeySets == {{<<1, 1>>}, {<<1, 1>>, <<1, 2>>}}

\* Metric tables of one or two rows.
AggTables ==
    UNION {{Frame(KeyCols \o <<"ExcessReturn", "Volatility">>,
                  {MetricRow(k, f[k][1], f[k][2]) : k \in K})
              : f \in [K -> MetricValues \X MetricValues]} : K \in AggKeySets}

\* Metric column lists: both columns in either order, one column, a column the
\* tables do not have, no column.
AggNameLists ==
    {<<"ExcessReturn", "Volatility">>, <<"Volatility", "ExcessReturn">>,
     <<"ExcessReturn">>, <<"Volatility">>, <<"ExcessReturn", "SharpeRatio">>, <<>>}

Hundredths(n) == Norm(n, 100)

\* Weight maps: valid ones, the empty one, sums at and beyond the tolerance
\* (0.98, 0.99, 1.01, 1.02), a negative weight in a map that sums to 1, a sum
\* of 0.5, and keys that differ from the metric columns.
WeightMaps ==
    {<<>>,
     ("ExcessReturn" :> Hundredths(50)) @@ ("Volatility" :> Hundredths(50)),
     ("ExcessReturn" :> Hundredths(25)) @@ ("Volatility" :> Hundredths(75)),
     ("ExcessReturn" :> Hundredths(100)) @@ ("Volatility" :> Hundredths(0)),
     ("ExcessReturn" :> Hundredths(150)) @@ ("Volatility" :> Hundredths(-50)),
     ("ExcessReturn" :> Hundredths(25)) @@ ("Volatility" :> Hundredths(25)),
     ("ExcessReturn" :> Hundredths(50)) @@ ("Volatility" :> Hundredths(49)),
     ("ExcessReturn" :> Hundredths(50)) @@ ("Volatility" :> Hundredths(48)),
     ("ExcessReturn" :> Hundredths(50)) @@ ("Volatility" :> Hundredths(51)),
     ("ExcessReturn" :> Hundredths(50)) @@ ("Volatility" :> Hundredths(52)),
     ("ExcessReturn" :> Hundredths(100)),
     ("Volatility" :> Hundredths(100)),
     ("ExcessReturn" :> Hundredths(50)) @@ ("SharpeRatio" :> Hundredths(50))}

InitAgg ==
    /\ op = "input"
    /\ arg \in [table : AggTables, names : AggNameLists, weights : WeightMaps]
    /\ res = NotCalled
    /\ calls = <<>>
    /\ NoPipeline

\* aggregator.aggregate(data, metric_columns, weights)
CallAggregate ==
    /\ op = "input"
    /\ op' = "aggregate"
    /\ LET out == Aggregate(arg.table, arg.names, arg.weights)
       IN  res' = out.res /\ calls' = out.calls
    /\ UNCHANGED <<arg, pipeVars>>

\* aggregator._aggregate(data, metric_columns, weights), called on its own with
\* columns the frame has (a lazy frame reports an unknown column only when it
\* is collected).
CallWeightedSum ==
    /\ op = "input"
    /\ \A i \in 1..Len(arg.names) : HasCol(arg.table, arg.names[i])
    /\ op' = "_aggregate"
    /\ res' = Ok(WeightedSumAggregate(arg.table, arg.names, arg.weights))
    /\ calls' = <<"_aggregate">>
    /\ UNCHANGED <<arg, pipeVars>>

\* aggregator.expr(metric_columns, weights) of the ModelPipeline family,
\* evaluated over the rows of a frame that has the columns.
CallExpr ==
    /\ op = "input"
    /\ \A i \in 1..Len(arg.names) : HasCol(arg.table, arg.names[i])
    /\ op' = "expr"
    /\ res' = Ok([r \in arg.table.rows |-> expr(r, arg.names, arg.weights)])
    /\ calls' = <<"expr">>
    /\ UNCHANGED <<arg, pipeVars>>

NextAgg == CallAggregate \/ CallWeightedSum \/ CallExpr

SpecAgg == InitAgg /\ [][NextAgg]_vars

\* ------------------------------------------------ claims: strategy aggregator

\* The weight map is one the specification calls valid for these metric
\* columns: not empty, its keys exactly the metric columns, its sum within
\* 0.01 of 1, no negative weight.
ValidWeightMap(weights, metric_columns) ==
    /\ DOMAIN weights # {}
    /\ DOMAIN weights = Range(metric_columns)
    /\ LET off == RSub(WeightsSum(weights), Num(1))
       IN  RLeq(<<-1, 100>>, off) /\ RLeq(off, <<1, 100>>)
    /\ \A c \in DOMAIN weights : RLeq(Num(0), weights[c])

AllColumnsPresent(t, metric_columns) ==
    \A i \in 1..Len(metric_columns) : HasCol(t, metric_columns[i])

\* C4: StrategyScoreAggregator.aggregate returns a scored table exactly when
\* the weight map is valid for the metric columns and the data has every
\* metric column; in every other case it raises a ValueError, and _aggregate
\* is invoked exactly in the cases where it returns.
C4_AggregateValidatesFirst ==
    op = "aggregate" =>
      LET accepted == /\ ValidWeightMap(arg.weights, arg.names)
                      /\ AllColumnsPresent(arg.table, arg.names)
      IN  /\ res.ok <=> accepted
          /\ ("_aggregate" \in Range(calls)) <=> accepted
          /\ res.ok => HasCol(res.val, "Strategy_Score")
          /\ ~res.ok => res.err \in
               {"ValueError: Weights dictionary cannot be empty",
                "ValueError: Weights keys must match metric columns exactly",
                "ValueError: Weights must sum up to 1",
                "ValueError: All weights must be positive",
                "ValueError: Missing columns in data"}

\* Witness of C4: a weight map with the right keys that sums to 1 and has a
\* negative weight is rejected without _aggregate being invoked.
C4_Witness ==
    /\ op = "aggregate"
    /\ arg.names = <<"ExcessReturn", "Volatility">>
    /\ DOMAIN arg.weights = {"ExcessReturn", "Volatility"}
    /\ WeightsSum(arg.weights) = Num(1)
    /\ arg.weights["Volatility"] = <<-1, 2>>
    /\ ~res.ok
    /\ calls = <<"_validate_input", "_check_weights">>

\* The weighted sum of row r over the set of metric columns.
RowScore(r, metric_columns, weights) ==
    SumSet({<<m, RMul(WeightsGet(weights, m), r[m])>> : m \in Range(metric_columns)})

\* C10: the strategy aggregator gives every input row the score
\* sum over the metric columns m of weight[m] * row[m]; the scored table has
\* exactly the input's rows (one score for each (PM_ID, Strategy_ID) row, the
\* other columns unchanged); and the score of a row is the one it gets when
\* the table holds that row alone.
C10_ScoreIsRowWeightedSum ==
    /\ (op \in {"aggregate", "_aggregate"} /\ res.ok) =>
         /\ KeysOf(res.val) = KeysOf(arg.table)
         /\ Cardinality(res.val.rows) = Cardinality(arg.table.rows)
         /\ res.val.cols = Append(arg.table.cols, "Strategy_Score")
         /\ \A r \in arg.table.rows : \A q \in res.val.rows :
              SameKey(q, r) =>
                /\ q["Strategy_Score"] = RowScore(r, arg.names, arg.weights)
                /\ \A c \in Range(arg.table.cols) : q[c] = r[c]
                /\ \A alone \in
                     WeightedSumAggregate(Frame(arg.table.cols, {r}), arg.names, arg.weights).rows :
                       alone["Strategy_Score"] = q["Strategy_Score"]
    /\ op = "expr" =>
         /\ DOMAIN res.val = arg.table.rows
         /\ \A r \in arg.table.rows : res.val[r] = RowScore(r, arg.names, arg.weights)

\* Witness of C10: two rows scored with unequal weights over two columns, the
\* two scores different.
C10_Witness ==
    /\ op = "aggregate" /\ res.ok
    /\ arg.names = <<"ExcessReturn", "Volatility">>
    /\ arg.weights["ExcessReturn"] = <<1, 4>>
    /\ \E q1, q2 \in res.val.rows :
         /\ q1["ExcessReturn"] = Num(2) /\ q1["Volatility"] = Num(1)
         /\ q1["Strategy_Score"] = <<5, 4>>
         /\ q2["ExcessReturn"] = Num(0) /\ q2["Volatility"] = Num(2)
         /\ q2["Strategy_Score"] = <<3, 2>>

\* ================================================== specification: pipelines

\* ---- inputs
\* Raw return records: every (PM_ID, Strategy_ID) group has four dates; its
\* Return is a, a, b, b and its Benchmark_Return c, c, d, d for a profile
\* <<a, b, c, d>>, which keeps every standard deviation rational.  The third
\* profile has a benchmark return below -1, which the validator rejects.
RawCols == <<"PM_ID", "Strategy_ID", "Date", "Return", "Benchmark_Return", "Excess_Return">>

Dates == {1, 2, 3, 4}

Profiles == {<<0, 0, 0, 0>>, <<1, 3, 0, 1>>, <<0, 0, -2, -2>>}

RawRow(k, date, p) ==
    LET ret == IF date <= 2 THEN p[1] ELSE p[2]
        bench == IF date <= 2 THEN p[3] ELSE p[4]
    IN  [c \in Range(RawCols) |->
           CASE c = "PM_ID" -> Num(k[1])
             [] c = "Strategy_ID" -> Num(k[2])
             [] c = "Date" -> Num(date)
             [] c = "Return" -> Num(ret)
             [] c = "Benchmark_Return" -> Num(bench)
             [] OTHER -> Num(ret - bench)]

DataKeySets == {{<<1, 1>>}, {<<1, 1>>, <<1, 2>>}, {<<1, 1>>, <<2, 1>>}}

DatasetsOver(KS) ==
    UNION {{Frame(RawCols, UNION {{RawRow(k, d, f[k]) : d \in Dates} : k \in K})
              : f \in [K -> Profiles]} : K \in KS}

Datasets == DatasetsOver(DataKeySets)

\* A frame without column c.
DropColumn(t, c) ==
    Frame(SelectSeq(t.cols, LAMBDA x : x # c),
          {[x \in DOMAIN r \ {c} |-> r[x]] : r \in t.rows})

\* The frames given to ModelPipeline.run: data sets of one manager, and one
\* frame that lacks the PM_ID column.
PipelineInputs ==
    DatasetsOver({{<<1, 1>>}, {<<1, 1>>, <<1, 2>>}})
      \cup {DropColumn(Frame(RawCols, {RawRow(<<1, 1>>, d, <<0, 0, 0, 0>>) : d \in Dates}), "PM_ID")}

NoManualWeights == [given |-> FALSE, map |-> <<>>]
Manual(map) == [given |-> TRUE, map |-> map]

\* manual_weights: None, an empty dict, a valid map, a sum of 0.75, a negative
\* weight, a map for one metric.
ManualWeights ==
    {NoManualWeights,
     Manual(<<>>),
     Manual(("ExcessReturn" :> Hundredths(25)) @@ ("Volatility" :> Hundredths(75))),
     Manual(("ExcessReturn" :> Hundredths(50)) @@ ("Volatility" :> Hundredths(25))),
     Manual(("ExcessReturn" :> Hundredths(150)) @@ ("Volatility" :> Hundredths(-50))),
     Manual("ExcessReturn" :> Hundredths(100))}

\* config.selected_metrics of a ModelPipeline.
SelectedMetrics == {<<>>, <<"ExcessReturn">>, <<"ExcessReturn", "Volatility">>}

\* The pipelines with metrics weight them equally; both weighting methods are
\* configured for the pipeline without metrics.
ModelPipelines ==
    {ModelPipelineInit(m, "EqualWeighting") : m \in SelectedMetrics}
      \cup {ModelPipelineInit(<<>>, "EntropyWeighting")}

\* What the parquet file of an orchestrator gives: a data set, or no file.
Sources == {Ok(d) : d \in Datasets} \cup {Raise("FileNotFoundError")}

\* config.selected_metrics of an orchestrator.
CalculatorLists == {<<>>, <<"Volatility">>, <<"Volatility", "Tracking_Error">>}

Orchestrators ==
    {OrchestratorInit(src, <<"SortStep">>, c) : src \in Sources, c \in CalculatorLists}

\* The arguments of run_analysis.
AnalysisColumns ==
    {<<"Volatility">>, <<"Volatility", "Tracking_Error">>, <<"Sharpe_Ratio">>}

AnalysisWeights ==
    {<<>>,
     "Volatility" :> Hundredths(100),
     ("Volatility" :> Hundredths(25)) @@ ("Tracking_Error" :> Hundredths(75)),
     ("Volatility" :> Hundredths(50)) @@ ("Tracking_Error" :> Hundredths(25)),
     "Sharpe_Ratio" :> Hundredths(100)}

\* The runs of one object are numbered.
RunIds == {1, 2}

\* ---- the object's attributes
AttributesOf(kind) ==
    IF kind = "ModelPipeline"
    THEN {"metric_data", "standardized_data", "weights", "strategy_scores", "pm_scores"}
    ELSE {"metric_results", "scored_results"}

NoLocals == <<>>

Init ==
    /\ op = "none" /\ arg = <<>> /\ res = NotCalled /\ calls = <<>>
    /\ obj \in ModelPipelines \cup Orchestrators
    /\ attrs = [a \in AttributesOf(obj.kind) |-> Unset]
    /\ origin = [a \in AttributesOf(obj.kind) |-> 0]
    /\ pc = "idle"
    /\ run = NoRun
    /\ local = NoLocals
    /\ result = NotCalled
    /\ trace = <<>>
    /\ raised = NoRaise
    /\ completed = {}

\* ---- ModelPipeline.run, one action per statement of its body

\* data.group_by(...).agg(...) without maintain_order: the groups come in an
\* order polars does not determine, so any order of the keys is an outcome.
GroupOrders(t) == Perms(KeysOf(t))

\* The table t with its rows listed in the key order s.
Listed(t, s) == [cols |-> t.cols, rows |-> t.rows, order |-> s]

\* The table without its row order.
Unlisted(t) == Frame(t.cols, t.rows)

\* What the object and the caller hold when run() or run_analysis() is called:
\* the call before it, the attributes it left and its result.
Earlier == [run |-> run, attrs |-> attrs, result |-> result]

\* The statement `self.<attr> = <value>` of the run in progress, which
\* completes `stage`; then the run goes on at `next`.
SetAttribute(attr, value, stage, next) ==
    /\ attrs' = [attrs EXCEPT ![attr] = Assigned(value)]
    /\ origin' = [origin EXCEPT ![attr] = run.id]
    /\ trace' = Append(trace, stage)
    /\ pc' = next

\* A call of the run raises `err` in `stage`: run() has no handler, the error
\* leaves it.
PipelineRaises(stage, err) ==
    /\ pc' = "idle"
    /\ raised' = [stage |-> stage, err |-> err]
    /\ result' = Raise(err)
    /\ UNCHANGED <<attrs, origin, trace, completed>>

\* pipeline.run(data, manual_weights) is called.
ModelPipelineRun ==
    /\ obj.kind = "ModelPipeline" /\ pc = "idle"
    /\ run.id + 1 \in RunIds
    /\ \E data \in PipelineInputs, manual_weights \in ManualWeights :
         run' = [id |-> run.id + 1, data |-> data, manual_weights |-> manual_weights,
                 before |-> Earlier]
    /\ pc' = "calc"
    /\ trace' = <<"RAW">>
    /\ raised' = NoRaise
    /\ result' = NotCalled
    /\ calls' = <<>>
    /\ UNCHANGED <<op, arg, res, obj, attrs, local, origin, completed>>

\* self.metric_data = self._calculate_metrics(data)
PipelineCalculate ==
    /\ obj.kind = "ModelPipeline" /\ pc = "calc"
    /\ LET out == CalculateMetrics(obj, run.data)
       IN  IF out.ok
           THEN /\ \E s \in GroupOrders(out.val) :
                     SetAttribute("metric_data", Listed(out.val, s),
                                  "CALCULATED", "standardize")
                /\ UNCHANGED <<raised, result, completed>>
           ELSE PipelineRaises("CALCULATED", out.err)
    /\ UNCHANGED <<fnVars, obj, run, local>>

\* Mutant: the weighting stage left out.
PipelineStandardizeThenAggregate ==
    /\ obj.kind = "ModelPipeline" /\ pc = "standardize"
    /\ LET out == StandardizeMetrics(obj, attrs["metric_data"].val)
       IN  IF out.ok
           THEN /\ SetAttribute("standardized_data",
                                Listed(out.val, attrs["metric_data"].val.order),
                                "STANDARDIZED", "strategy")
                /\ UNCHANGED <<raised, result, completed>>
           ELSE PipelineRaises("STANDARDIZED", out.err)
    /\ UNCHANGED <<fnVars, obj, run, local>>

\* self.standardized_data = self._standardize_metrics(self.metric_data)
PipelineStandardize ==
    /\ obj.kind = "ModelPipeline" /\ pc = "standardize"
    /\ LET out == StandardizeMetrics(obj, attrs["metric_data"].val)
       IN  IF out.ok
           THEN /\ SetAttribute("standardized_data",
                                Listed(out.val, attrs["metric_data"].val.order),
                                "STANDARDIZED", "weights")
                /\ UNCHANGED <<raised, result, completed>>
           ELSE PipelineRaises("STANDARDIZED", out.err)
    /\ UNCHANGED <<fnVars, obj, run, local>>

\* self.weights = self._calculate_weights(self.standardized_data, manual_weights)
PipelineWeights ==
    /\ obj.kind = "ModelPipeline" /\ pc = "weights"
    /\ LET out == CalculateWeights(obj, attrs["standardized_data"].val, run.manual_weights)
       IN  IF out.ok
           THEN /\ SetAttribute("weights", out.val, "WEIGHTED", "strategy")
                /\ UNCHANGED <<raised, result, completed>>
           ELSE PipelineRaises("WEIGHTED", out.err)
    /\ calls' = IF ManualWeightsTruthy(run.manual_weights) THEN calls
                ELSE Append(calls, "calculate_weights")
    /\ UNCHANGED <<op, arg, res, obj, run, local>>

\* self.strategy_scores = self._aggregate_strategy_scores(
\*     self.standardized_data, self.weights)
PipelineStrategyScores ==
    /\ obj.kind = "ModelPipeline" /\ pc = "strategy"
    /\ LET out == AggregateStrategyScores(obj, attrs["standardized_data"].val,
                                          attrs["weights"].val)
       IN  IF out.ok
           THEN /\ SetAttribute("strategy_scores",
                                Listed(out.val, attrs["standardized_data"].val.order),
                                "STRATEGY_SCORED", "pm")
                /\ UNCHANGED <<raised, result, completed>>
           ELSE PipelineRaises("STRATEGY_SCORED", out.err)
    /\ UNCHANGED <<fnVars, obj, run, local>>

\* self.pm_scores = self._aggregate_pm_scores(self.strategy_scores); run()
\* returns None.
PipelinePMScores ==
    /\ obj.kind = "ModelPipeline" /\ pc = "pm"
    /\ LET out == AggregatePMScores(obj, attrs["strategy_scores"].val)
       IN  IF out.ok
           THEN /\ SetAttribute("pm_scores", out.val, "PORTFOLIO_SCORED", "idle")
                /\ result' = Ok("None")
                /\ completed' = completed \cup {run.id}
                /\ UNCHANGED raised
           ELSE PipelineRaises("PORTFOLIO_SCORED", out.err)
    /\ UNCHANGED <<fnVars, obj, run, local>>

\* ---- PerformanceAnalysisOrchestrator.run_analysis, one action per statement
\* of its try block

\* A local variable of run_analysis is assigned, which completes `stage`.
SetLocal(name, value, stage, next) ==
    /\ local' = [local EXCEPT ![name] = Assigned(value)]
    /\ trace' = Append(trace, stage)
    /\ pc' = next

\* A call of the try block raises `err` in `stage`: the except clause runs and
\* run_analysis is left.
AnalysisRaises(stage, err) ==
    /\ pc' = "idle"
    /\ raised' = [stage |-> stage, err |-> err]
    /\ result' = RunAnalysisExcept(err)
    /\ local' = NoLocals
    /\ UNCHANGED <<attrs, origin, trace, completed>>

\* orchestrator.run_analysis(metric_columns, weights) is called.
RunAnalysis ==
    /\ obj.kind = "Orchestrator" /\ pc = "idle"
    /\ run.id + 1 \in RunIds
    /\ \E metric_columns \in AnalysisColumns, weights \in AnalysisWeights :
         run' = [id |-> run.id + 1, metric_columns |-> metric_columns, weights |-> weights,
                 before |-> Earlier]
    /\ local' = [v \in {"processed_data", "metric_results", "scored_results"} |-> Unset]
    /\ pc' = "data"
    /\ trace' = <<>>
    /\ raised' = NoRaise
    /\ result' = NotCalled
    /\ UNCHANGED <<fnVars, obj, attrs, origin, completed>>

\* processed_data = self._data_pipeline.run()
AnalysisProcessData ==
    /\ obj.kind = "Orchestrator" /\ pc = "data"
    /\ LET out == DataPipelineRun(obj.source, obj.steps)
       IN  IF out.ok
           THEN /\ SetLocal("processed_data", out.val, "RAW", "calc")
                /\ UNCHANGED <<attrs, origin, raised, result, completed>>
           ELSE AnalysisRaises("RAW", out.err)
    /\ UNCHANGED <<fnVars, obj, run>>

\* metric_results = self._calculation_pipeline.run(processed_data)
AnalysisCalculate ==
    /\ obj.kind = "Orchestrator" /\ pc = "calc"
    /\ LET out == MetricsCalculationPipelineRun(obj.calculators, local["processed_data"].val)
       IN  IF out.ok
           THEN /\ SetLocal("metric_results", out.val, "CALCULATED", "standardize")
                /\ UNCHANGED <<attrs, origin, raised, result, completed>>
           ELSE AnalysisRaises("CALCULATED", out.err)
    /\ UNCHANGED <<fnVars, obj, run>>

\* metric_results = self._standardizer.standardize(metric_results, metric_columns)
AnalysisStandardize ==
    /\ obj.kind = "Orchestrator" /\ pc = "standardize"
    /\ SetLocal("metric_results",
                StandardizeLazy(local["metric_results"].val, run.metric_columns),
                "STANDARDIZED", "strategy")
    /\ UNCHANGED <<fnVars, obj, run, attrs, origin, raised, result, completed>>

\* self.metric_results = self._strategy_aggregator.aggregate(
\*     metric_results, metric_columns, weights)
AnalysisStrategyScores ==
    /\ obj.kind = "Orchestrator" /\ pc = "strategy"
    /\ LET out == AggregateLazy(local["metric_results"].val, run.metric_columns, run.weights)
       IN  IF out.ok
           THEN /\ SetAttribute("metric_results", out.val, "STRATEGY_SCORED", "pm")
                /\ UNCHANGED <<local, raised, result, completed>>
           ELSE AnalysisRaises("STRATEGY_SCORED", out.err)
    /\ UNCHANGED <<fnVars, obj, run>>

\* scored_results = self._portfolio_aggregator.aggregate(self.metric_results)
AnalysisPMScores ==
    /\ obj.kind = "Orchestrator" /\ pc = "pm"
    /\ SetLocal("scored_results", PMScoreAggregate(attrs["metric_results"].val),
                "PORTFOLIO_SCORED", "rank")
    /\ UNCHANGED <<fnVars, obj, run, attrs, origin, raised, result, completed>>

\* self.scored_results = scored_results.with_columns([... "Rank"]).sort("Rank");
\* return True
AnalysisRank ==
    /\ obj.kind = "Orchestrator" /\ pc = "rank"
    /\ \E out \in RankedAndSorted(local["scored_results"].val) :
         SetAttribute("scored_results", out, "RANKED", "idle")
    /\ result' = Ok(TRUE)
    /\ completed' = completed \cup {run.id}
    /\ local' = NoLocals
    /\ UNCHANGED <<fnVars, obj, run, raised>>

Next ==
    \/ ModelPipelineRun
    \/ PipelineCalculate
    \/ PipelineStandardize
    \/ PipelineWeights
    \/ PipelineStrategyScores
    \/ PipelinePMScores
    \/ RunAnalysis
    \/ AnalysisProcessData
    \/ AnalysisCalculate
    \/ AnalysisStandardize
    \/ AnalysisStrategyScores
    \/ AnalysisPMScores
    \/ AnalysisRank

Spec == Init /\ [][Next]_vars

\* ------------------------------------------------------- claims: pipelines

\* The stages of the specification's state machine.
StageOrder ==
    <<"RAW", "CALCULATED", "STANDARDIZED", "WEIGHTED", "STRATEGY_SCORED",
      "PORTFOLIO_SCORED", "RANKED">>

StageIndex(stage) == CHOOSE i \in 1..Len(StageOrder) : StageOrder[i] = stage

\* The stages ModelPipeline.run and run_analysis go through.
StagesOf(kind) ==
    IF kind = "ModelPipeline"
    THEN <<"RAW", "CALCULATED", "STANDARDIZED", "WEIGHTED", "STRATEGY_SCORED",
           "PORTFOLIO_SCORED">>
    ELSE <<"RAW", "CALCULATED", "STANDARDIZED", "STRATEGY_SCORED",
           "PORTFOLIO_SCORED", "RANKED">>

\* The stage a statement of the run completes.
StageAt(p) ==
    CASE p = "data" -> "RAW"
      [] p = "calc" -> "CALCULATED"
      [] p = "standardize" -> "STANDARDIZED"
      [] p = "weights" -> "WEIGHTED"
      [] p = "strategy" -> "STRATEGY_SCORED"
      [] p = "pm" -> "PORTFOLIO_SCORED"
      [] p = "rank" -> "RANKED"

\* The stage whose output an attribute holds.
AttributeStage(a) ==
    CASE a = "metric_data" -> "CALCULATED"
      [] a = "standardized_data" -> "STANDARDIZED"
      [] a = "weights" -> "WEIGHTED"
      [] a = "strategy_scores" -> "STRATEGY_SCORED"
      [] a = "pm_scores" -> "PORTFOLIO_SCORED"
      [] a = "metric_results" -> "STRATEGY_SCORED"
      [] a = "scored_results" -> "RANKED"

Done(stage) == stage \in Range(trace)

RunSucceeded == pc = "idle" /\ result.ok

PipelineDataFlow ==
    /\ Done("CALCULATED") =>
         Unlisted(attrs["metric_data"].val) = CalculateMetrics(obj, run.data).val
    /\ Done("STANDARDIZED") =>
         Unlisted(attrs["standardized_data"].val) =
           Unlisted(StandardizeMetrics(obj, attrs["metric_data"].val).val)
    /\ Done("WEIGHTED") =>
         attrs["weights"].val =
           CalculateWeights(obj, attrs["standardized_data"].val, run.manual_weights).val
    /\ Done("STRATEGY_SCORED") =>
         Unlisted(attrs["strategy_scores"].val) =
           Unlisted(AggregateStrategyScores(obj, attrs["standardized_data"].val,
                                            attrs["weights"].val).val)
    /\ Done("PORTFOLIO_SCORED") =>
         attrs["pm_scores"].val = AggregatePMScores(obj, attrs["strategy_scores"].val).val

\* The same for a run of run_analysis.
AnalysisDataFlow ==
    LET raw == DataPipelineRun(obj.source, obj.steps).val
        calculated == MetricsCalculationPipelineRun(obj.calculators, raw).val
        standardized == StandardizeLazy(calculated, run.metric_columns)
    IN  /\ (Done("RAW") /\ pc # "idle") => local["processed_data"].val = raw
        /\ (Done("CALCULATED") /\ pc = "standardize") =>
             local["metric_results"].val = calculated
        /\ (Done("STANDARDIZED") /\ pc = "strategy") =>
             local["metric_results"].val = standardized
        /\ Done("STRATEGY_SCORED") =>
             attrs["metric_results"].val =
               AggregateLazy(standardized, run.metric_columns, run.weights).val
        /\ (Done("PORTFOLIO_SCORED") /\ pc = "rank") =>
             local["scored_results"].val = PMScoreAggregate(attrs["metric_results"].val)
        /\ Done("RANKED") =>
             attrs["scored_results"].val \in
               RankedAndSorted(PMScoreAggregate(attrs["metric_results"].val))

C3_ResultsFromOneCompletedRun ==
    pc = "idle" =>
      \/ \A a \in DOMAIN attrs : ~attrs[a].set
      \/ \E r \in completed : \A a \in DOMAIN attrs : attrs[a].set /\ origin[a] = r

C9_ScoreFromStandardizedValues ==
    (/\ obj.kind = "Orchestrator" /\ Done("STRATEGY_SCORED")
     /\ \A q \in attrs["metric_results"].val.rows :
          \A m \in Range(run.metric_columns) : IsFinite(q[StandardizedName(m)])) =>
      \A q \in attrs["metric_results"].val.rows :
        q["Strategy_Score"] =
          SumSet({<<m, RMul(run.weights[m], q[StandardizedName(m)])>>
                    : m \in Range(run.metric_columns)})

\* ===================================================== portfolio aggregation
\* and ranking, called on their own

\* The values a strategy score takes in the tables given to the portfolio
\* aggregators: numbers and NaN (the score of a row with a NaN metric).
ScoreValues == {Num(0), Num(1), Num(2), NaN}

\* A strategy score table: the key columns and the score column `col`
\* ("Strategy_Score" in metrics/, "StrategyScore" in aggregators/).
ScoreTable(f, col) ==
    Frame(KeyCols \o <<col>>,
          {[c \in {"PM_ID", "Strategy_ID", col} |->
              CASE c = "PM_ID" -> Num(k[1])
                [] c = "Strategy_ID" -> Num(k[2])
                [] OTHER -> f[k]] : k \in DOMAIN f})

\* The strategy scores of the inputs, by key.
ScoreInputs == UNION {[K -> ScoreValues] : K \in KeySets}

\* The managers of the tables given to the ranking.
RankPMs == {1, 2, 3}

\* The portfolio scores of those inputs, by manager.
PMScoreInputs == UNION {[K -> ScoreValues] : K \in SUBSET RankPMs \ {{}}}

\* A portfolio score table.
PMScoreTable(f) ==
    Frame(<<"PM_ID", "PM_Score">>,
          {[c \in {"PM_ID", "PM_Score"} |->
              IF c = "PM_ID" THEN Num(k) ELSE f[k]] : k \in DOMAIN f})

InitPM ==
    /\ op = "input"
    /\ arg \in {[kind |-> "strategy", scores |-> f] : f \in ScoreInputs}
               \cup {[kind |-> "pm", scores |-> f] : f \in PMScoreInputs}
    /\ res = NotCalled
    /\ calls = <<>>
    /\ NoPipeline

\* PMScoreAggregator.aggregate(data) of metrics/portfolio_aggregator
CallPMScoreAggregate ==
    /\ op = "input" /\ arg.kind = "strategy"
    /\ op' = "aggregate"
    /\ res' = Ok(PMScoreAggregate(ScoreTable(arg.scores, "Strategy_Score")))
    /\ calls' = <<"aggregate">>
    /\ UNCHANGED <<arg, pipeVars>>

\* PMScoreAggregator.aggregate(data) of aggregators/portfolio_aggregator
CallPMScoreAggregateSkipNa ==
    /\ op = "input" /\ arg.kind = "strategy"
    /\ op' = "aggregate_skipna"
    /\ res' = Ok(PMScoreAggregateSkipNa(ScoreTable(arg.scores, "StrategyScore")))
    /\ calls' = <<"aggregate">>
    /\ UNCHANGED <<arg, pipeVars>>

\* The ranking statement of run_analysis on a portfolio score table.
CallRank ==
    /\ op = "input" /\ arg.kind = "pm"
    /\ op' = "rank"
    /\ \E out \in RankedAndSorted(PMScoreTable(arg.scores)) : res' = Ok(out)
    /\ calls' = <<"rank", "sort">>
    /\ UNCHANGED <<arg, pipeVars>>

NextPM == CallPMScoreAggregate \/ CallPMScoreAggregateSkipNa \/ CallRank

SpecPM == InitPM /\ [][NextPM]_vars

\* ------------------------------------------- claims: portfolio aggregation

\* The strategies of manager pm in the input of the call.
StrategiesOf(pm) == {k \in DOMAIN arg.scores : k[1] = pm}

\* The arithmetic mean of the scores of manager pm's strategies.
MeanScoreOf(pm) ==
    RDiv(SumSet({<<k, arg.scores[k]>> : k \in StrategiesOf(pm)}),
         Num(Cardinality(StrategiesOf(pm))))

\* C11: the portfolio aggregators return one row for every PM_ID of the
\* strategy score table and none for any other; the portfolio score of a
\* manager whose strategy scores are all numbers is the arithmetic mean of the
\* scores of exactly that manager's strategies.
C11_OneRowPerManagerWithMean ==
    (op \in {"aggregate", "aggregate_skipna"}) =>
      LET out == res.val
          score == IF op = "aggregate" THEN "PM_Score" ELSE "PMScore"
          managers == {k[1] : k \in DOMAIN arg.scores}
      IN  /\ res.ok
          /\ {r["PM_ID"] : r \in out.rows} = {Num(pm) : pm \in managers}
          /\ Cardinality(out.rows) = Cardinality(managers)
          /\ \A r \in out.rows : \A pm \in managers :
                (/\ r["PM_ID"] = Num(pm)
                 /\ \A k \in StrategiesOf(pm) : IsFinite(arg.scores[k]))
                => r[score] = MeanScoreOf(pm)

\* Witness of C11: two managers, the first with two strategies scored 0 and
\* 1, the second with one strategy scored 2: the scores are 1/2 and 2.
C11_Witness ==
    /\ op = "aggregate"
    /\ arg.scores = (<<1, 1>> :> Num(0)) @@ (<<1, 2>> :> Num(1)) @@ (<<2, 1>> :> Num(2))
    /\ res.val.rows =
         {[c \in {"PM_ID", "PM_Score"} |-> IF c = "PM_ID" THEN Num(1) ELSE Norm(1, 2)],
          [c \in {"PM_ID", "PM_Score"} |-> IF c = "PM_ID" THEN Num(2) ELSE Num(2)]}

\* ------------------------------------------------------- claims: ranking

\* C12: the ranking keeps the managers and their scores and adds a dense,
\* descending Rank: in a table whose scores are all numbers, the rank of a
\* manager is 1 plus the number of distinct scores greater than the manager's
\* own; in every table equal scores have equal ranks, a higher score has a
\* smaller rank, the ranks used are exactly 1..k for k distinct scores, and the
\* rows are listed by ascending Rank.
C12_DenseDescendingRank ==
    (op = "rank") =>
      LET out == res.val
          scores == {r["PM_Score"] : r \in out.rows}
      IN  /\ res.ok
          /\ {[c \in {"PM_ID", "PM_Score"} |-> r[c]] : r \in out.rows}
               = PMScoreTable(arg.scores).rows
          /\ Cardinality(out.rows) = Cardinality(DOMAIN arg.scores)
          /\ (\A x \in scores : IsFinite(x)) =>
                \A r \in out.rows :
                  r["Rank"] = Num(1 + Cardinality({x \in scores : RLess(r["PM_Score"], x)}))
          /\ \A q, r \in out.rows :
                /\ q["PM_Score"] = r["PM_Score"] => q["Rank"] = r["Rank"]
                /\ (IsFinite(q["PM_Score"]) /\ IsFinite(r["PM_Score"])
                    /\ RLess(q["PM_Score"], r["PM_Score"]))
                   => RLess(r["Rank"], q["Rank"])
          /\ {r["Rank"] : r \in out.rows} = {Num(i) : i \in 1..Cardinality(scores)}
          /\ Len(out.order) = Cardinality(out.rows)
          /\ Range(out.order) = out.rows
          /\ \A i, j \in 1..Len(out.order) :
                i < j => RLeq(out.order[i]["Rank"], out.order[j]["Rank"])

\* Witness of C12: three managers, two of them with the top score 2 and one
\* with score 1: the ranks are 1, 1 and 2, the manager of rank 2 listed last.
C12_Witness ==
    /\ op = "rank"
    /\ arg.scores = (1 :> Num(2)) @@ (2 :> Num(1)) @@ (3 :> Num(2))
    /\ \A r \in res.val.rows :
          r["Rank"] = IF r["PM_ID"] = Num(2) THEN Num(2) ELSE Num(1)
    /\ res.val.order[3]["PM_ID"] = Num(2)

\* ================================================ weighting methods, called
\* on their own

\* Tables of one, two and three strategies.
WeightKeySets == {{<<1, 1>>}, {<<1, 1>>, <<1, 2>>}, {<<1, 1>>, <<1, 2>>, <<2, 1>>}}

\* The metric tables given to the weighting methods: two metric columns with
\* non-negative values.
WeightTables ==
    UNION {{Frame(KeyCols \o <<"ExcessReturn", "Volatility">>,
                  {MetricRow(k, f[k][1], f[k][2]) : k \in K})
              : f \in [K -> MetricValues \X MetricValues]} : K \in WeightKeySets}

\* Metric name lists: both columns, one column, none, a column the tables do
\* not have.
WeightNameLists ==
    {<<"ExcessReturn", "Volatility">>, <<"Volatility">>, <<>>,
     <<"ExcessReturn", "SharpeRatio">>}

InitWeight ==
    /\ op = "input"
    /\ arg \in [table : WeightTables, names : WeightNameLists]
    /\ res = NotCalled
    /\ calls = <<>>
    /\ NoPipeline

\* EqualWeighting().calculate_weights(metric_data, metric_columns)
CallEqualWeighting ==
    /\ op = "input"
    /\ op' = "equal"
    /\ res' = EqualWeightingCalculateWeights(arg.table, arg.names)
    /\ calls' = <<"calculate_weights">>
    /\ UNCHANGED <<arg, pipeVars>>

\* EntropyWeighting().calculate_weights(metric_data, metric_columns)
CallEntropyWeighting ==
    /\ op = "input"
    /\ op' = "entropy"
    /\ res' = EntropyWeightingCalculateWeights(arg.table, arg.names)
    /\ calls' = <<"calculate_weights", "_calculate_entropy", "_calculate_weights">>
    /\ UNCHANGED <<arg, pipeVars>>

NextWeight == CallEqualWeighting \/ CallEntropyWeighting

SpecWeight == InitWeight /\ [][NextWeight]_vars

\* ------------------------------------------------ claims: weighting methods

\* C13: equal weighting raises for an empty list of metric names; for any
\* other list it returns a map whose keys are the listed metrics and whose
\* every weight, multiplied by the number of listed names, is 1.
C13_EqualWeights ==
    (op = "equal") =>
      IF Len(arg.names) = 0
      THEN ~res.ok /\ res.err = "ValueError: No metrics to calculate weights for"
      ELSE /\ res.ok
           /\ DOMAIN res.val = Range(arg.names)
           /\ \A m \in DOMAIN res.val : RMul(res.val[m], Num(Len(arg.names))) = Num(1)

\* Witness of C13: two metric names, each weighted 1/2.
C13_Witness ==
    /\ op = "equal"
    /\ arg.names = <<"ExcessReturn", "Volatility">>
    /\ res = Ok(("ExcessReturn" :> Norm(1, 2)) @@ ("Volatility" :> Norm(1, 2)))

\* The WeightMap invariants of the specification: the keys are the metric
\* columns, every weight is a number in [0, 1], the weights sum to 1 within
\* 0.01.
WeightMapInvariants(weights, metric_columns) ==
    /\ DOMAIN weights = Range(metric_columns)
    /\ \A m \in DOMAIN weights :
          /\ IsFinite(weights[m])
          /\ RLeq(Num(0), weights[m]) /\ RLeq(weights[m], Num(1))
    /\ LET total == WeightsSum(weights)
       IN  /\ IsFinite(total)
           /\ RLeq(Norm(99, 100), total) /\ RLeq(total, Norm(101, 100))

\* C14: every weight map a weighting method returns satisfies the WeightMap
\* invariants for the metric names it was asked about.
C14_ReturnedMapsAreValid ==
    (op \in {"equal", "entropy"} /\ res.ok) =>
      WeightMapInvariants(res.val, arg.names)

\* Column m of table t holds one value in every row.
ConstantColumn(t, m) == \A q, r \in t.rows : q[m] = r[m]

\* C15: entropy weighting over two or more strategies gives a metric whose
\* column is constant the entropy 1 and the weight 0, and the other listed
\* metrics, one of which is not constant, weights that are numbers.
C15_ConstantColumnGetsNoWeight ==
    (/\ op = "entropy"
     /\ Cardinality(arg.table.rows) >= 2
     /\ \A m \in Range(arg.names) : HasCol(arg.table, m)
     /\ \E m \in Range(arg.names) : ~ConstantColumn(arg.table, m)) =>
      /\ res.ok
      /\ \A m \in Range(arg.names) :
            ConstantColumn(arg.table, m) =>
              /\ ColumnEntropy(arg.table, m) = Num(1)
              /\ res.val[m] = Num(0)
              /\ \A other \in DOMAIN res.val : IsFinite(res.val[other])

\* ------------------------------------------------ claims: manual weights

\* What C16 says of a run given the manual map `supplied`: the weighting
\* method has not been called; once the weights statement is done,
\* pipeline.weights is the supplied map, and the strategy scores, once
\* computed, are those of the supplied map.
ManualMapBypasses(supplied) ==
    /\ calls = <<>>
    /\ Done("WEIGHTED") => attrs["weights"].val = supplied
    /\ Done("STRATEGY_SCORED") =>
         Unlisted(attrs["strategy_scores"].val) =
           Unlisted(AggregateStrategyScores(obj, attrs["standardized_data"].val, supplied).val)

\* The weights statement of the run has been executed (it returned or raised).
WeightsStatementExecuted == Done("WEIGHTED") \/ raised.stage = "WEIGHTED"

CalcDateSets == {{1}, {1, 2}, {1, 2, 3, 4}}

\* Raw data sets whose pairs have different numbers of observations.
CalcDatasets ==
    UNION {{Frame(RawCols, UNION {{RawRow(k, d, f[k][1]) : d \in f[k][2]} : k \in K})
              : f \in [K -> Profiles \X CalcDateSets]} : K \in DataKeySets}

\* A frame without the columns of S.
WithoutColumns(t, S) ==
    Frame(SelectSeq(t.cols, LAMBDA x : x \notin S),
          {[x \in DOMAIN r \ S |-> r[x]] : r \in t.rows})

\* The columns an input may lack: none, grouping columns, a value column, a
\* grouping column and a value column.
MissingColumnSets ==
    {{}, {"PM_ID"}, {"Strategy_ID"}, {"PM_ID", "Strategy_ID"}, {"Return"},
     {"Benchmark_Return"}, {"PM_ID", "Return"}}

\* The calculator lists a CalculationPipeline of calculators/ is made with.
\* A value column that is not there fails only when the lazy result is
\* collected, so these pipelines get frames that have the value columns or
\* lack a grouping column.
ExpressionCalculatorLists ==
    {<<>>, <<"ExcessReturn">>, <<"ExcessReturn", "Volatility">>,
     <<"Volatility", "ExcessReturn">>, <<"TrackingError">>}

\* The calculator lists a CalculationPipeline of metrics/calculator is made
\* with; the lists with two Sharpe calculators are the ones run_analysis of
\* frontend/utils.py builds when "sharpe_ratio" is selected.
MetricCalculatorLists ==
    {<<>>, <<"Volatility">>, <<"Tracking_Error">>, <<"Volatility", "Tracking_Error">>,
     <<"Tracking_Error", "Volatility">>,
     <<"Sharpe_Ratio", "Sharpe_Ratio(risk_free_rate)">>,
     <<"Volatility", "Sharpe_Ratio", "Sharpe_Ratio(risk_free_rate)">>}

\* The calculators whose calculate_all_groups is called.
GroupCalculatorLists == {<<"ExcessReturn">>, <<"Volatility">>}

CalcInputs ==
    {[family |-> "calculators", calculators |-> cs, data |-> WithoutColumns(d, S)]
       : cs \in ExpressionCalculatorLists, d \in CalcDatasets,
         S \in {M \in MissingColumnSets : M \cap Range(KeyCols) # {} \/ M = {}}}
    \cup {[family |-> "metrics.calculator", calculators |-> cs,
           data |-> WithoutColumns(d, S)]
            : cs \in MetricCalculatorLists, d \in CalcDatasets, S \in MissingColumnSets}
    \cup {[family |-> "metrics", calculators |-> cs, data |-> WithoutColumns(d, S)]
            : cs \in GroupCalculatorLists, d \in CalcDatasets, S \in MissingColumnSets}

InitCalc ==
    /\ op = "input"
    /\ arg \in CalcInputs
    /\ res = NotCalled
    /\ calls = <<>>
    /\ NoPipeline

\* CalculationPipeline(calculators).run(data) of calculators/pipeline.py
CallCalculationPipelineRun ==
    /\ op = "input" /\ arg.family = "calculators"
    /\ op' = "run"
    /\ res' = CalculationPipelineRun(arg.calculators, KeyCols, arg.data)
    /\ calls' = IF CalculationValidateInput(arg.data, KeyCols).ok
                THEN <<"_validate_input", "agg">> ELSE <<"_validate_input">>
    /\ UNCHANGED <<arg, pipeVars>>

\* CalculationPipeline(calculators).run(data) of metrics/calculator/pipeline.py
CallMetricsCalculationPipelineRun ==
    /\ op = "input" /\ arg.family = "metrics.calculator"
    /\ op' = "run"
    /\ res' = MetricsCalculationPipelineRun(arg.calculators, arg.data)
    /\ calls' = CalculationCallsFrom(arg.calculators, arg.data, 1)
    /\ UNCHANGED <<arg, pipeVars>>

\* calculator.calculate(data) of metrics/calculator/base.py
CallCalculate ==
    /\ op = "input" /\ arg.family = "metrics.calculator" /\ Len(arg.calculators) = 1
    /\ op' = "calculate"
    /\ res' = Calculate(arg.calculators[1], arg.data)
    /\ calls' = CalculationCallsFrom(arg.calculators, arg.data, 1)
    /\ UNCHANGED <<arg, pipeVars>>

\* calculator.calculate_all_groups(data) of metrics/base.py
CallCalculateAllGroups ==
    /\ op = "input" /\ arg.family = "metrics"
    /\ op' = "calculate_all_groups"
    /\ res' = CalculateAllGroups(arg.calculators[1], arg.data)
    /\ calls' = <<"groupby", "apply">>
    /\ UNCHANGED <<arg, pipeVars>>

NextCalc ==
    \/ CallCalculationPipelineRun
    \/ CallMetricsCalculationPipelineRun
    \/ CallCalculate
    \/ CallCalculateAllGroups

SpecCalc == InitCalc /\ [][NextCalc]_vars

\* The (PM_ID, Strategy_ID) pairs of the rows of a frame.
PairsOf(t) == {<<r["PM_ID"], r["Strategy_ID"]>> : r \in t.rows}

\* The rows of a frame that hold the pair k.
RowsOfPair(t, k) == {r \in t.rows : <<r["PM_ID"], r["Strategy_ID"]>> = k}

\* C17: a calculation that returns a table returns exactly one row for each
\* distinct (PM_ID, Strategy_ID) pair of the input rows and no row for any
\* other pair, whether a pair has one, two or four observation rows.
C17_OneRowPerPair ==
    (op \in {"run", "calculate", "calculate_all_groups"} /\ res.ok) =>
        /\ PairsOf(res.val) = PairsOf(arg.data)
        /\ \A k \in PairsOf(arg.data) : Cardinality(RowsOfPair(res.val, k)) = 1
        /\ Cardinality(res.val.rows) = Cardinality(PairsOf(arg.data))

\* Witness of C17: a pipeline run returned two rows for two pairs that have
\* different numbers of observations.
C17_Witness ==
    /\ op = "run" /\ res.ok /\ arg.family = "calculators"
    /\ Cardinality(res.val.rows) = 2
    /\ \E k1, k2 \in PairsOf(arg.data) :
          Cardinality(RowsOfPair(arg.data, k1)) = 1
          /\ Cardinality(RowsOfPair(arg.data, k2)) = 4

\* The metric name of every calculator of the run, in the order supplied:
\* the class name in calculators/, the alias of the calculator's result in
\* metrics/calculator.
ConfiguredNames ==
    [i \in 1..Len(arg.calculators) |->
       IF arg.family = "metrics.calculator" THEN MetricName(arg.calculators[i])
       ELSE arg.calculators[i]]

\* The names of a list without repetitions, in the order of the list.
RECURSIVE DistinctFrom(_, _)
DistinctFrom(names, i) ==
    IF i > Len(names) THEN <<>>
    ELSE (IF \E j \in 1..(i - 1) : names[j] = names[i] THEN <<>> ELSE <<names[i]>>)
           \o DistinctFrom(names, i + 1)

\* The last calculator of the run that carries the metric name n.
LastCalculatorOf(n) ==
    arg.calculators[CHOOSE i \in 1..Len(arg.calculators) :
                      /\ ConfiguredNames[i] = n
                      /\ \A j \in (i + 1)..Len(arg.calculators) : ConfiguredNames[j] # n]

\* The value the calculator c gives for the pair of the row r.
ValueOf(c, r) ==
    LET g == GroupOf(arg.data, [k \in Range(KeyCols) |-> r[k]])
    IN  IF arg.family = "metrics.calculator" THEN CalculateMetric(c, g)
        ELSE Expression(c, g)

\* The columns of a table that are not grouping columns.
MetricColumnsOf(t) == SelectSeq(t.cols, LAMBDA c : c \notin Range(KeyCols))

\* A frame with all the columns of the raw data.
Complete(t) == Range(RawCols) \subseteq Range(t.cols)

\* C18: a pipeline run on complete data that returns a table returns one
\* column per configured metric name, in the order supplied; a name carried
\* by two calculators has exactly one column, holding the last one's values;
\* get_calculator_types has an entry for every metric column.
C18_OneColumnPerMetricName ==
    (op = "run" /\ res.ok /\ Complete(arg.data)) =>
        /\ MetricColumnsOf(res.val) = DistinctFrom(ConfiguredNames, 1)
        /\ \A c \in Range(MetricColumnsOf(res.val)) \cap Range(ConfiguredNames) :
              \A r \in res.val.rows : r[c] = ValueOf(LastCalculatorOf(c), r)
        /\ arg.family = "calculators" =>
              \A c \in Range(MetricColumnsOf(res.val)) :
                 \E i \in 1..Len(arg.calculators) : TypesOf(arg.calculators)[i][1] = c

\* The same for runs whose calculators carry different metric names.
C18_DistinctNamesGiveOneColumnEach ==
    (\A i, j \in 1..Len(arg.calculators) : ConfiguredNames[i] = ConfiguredNames[j] => i = j)
        => C18_OneColumnPerMetricName

\* The grouping columns the input of the call lacks, in the order of the
\* grouping columns.
MissingGroupingColumns == SelectSeq(KeyCols, LAMBDA c : ~HasCol(arg.data, c))

\* The errors that name exactly the columns of the list.
ErrorsNaming(columns) ==
    {"ValueError: Missing grouping columns in data: " \o Repr(columns),
     "ValueError: Missing required columns in data: " \o Repr(columns)}

\* The steps of a call that compute a metric.
ComputingSteps == {"agg", "_calculate_metric"}

\* C19: a calculation called on data that lacks a grouping column fails, its
\* error names exactly the missing grouping columns, and no metric has been
\* computed.
C19_MissingGroupingColumnsNamed ==
    (op \in {"run", "calculate"} /\ MissingGroupingColumns # <<>>) =>
        /\ ~res.ok
        /\ res.err \in ErrorsNaming(MissingGroupingColumns)
        /\ Range(calls) \cap ComputingSteps = {}

\* The same for the pipelines of calculators/ alone.
C19_ExpressionPipelineNamesMissingColumns ==
    arg.family = "calculators" => C19_MissingGroupingColumnsNamed

\* A call on data that lacks a grouping column never returns a table and
\* never computes a metric.
C19_MissingGroupingColumnsFail ==
    (op \in {"run", "calculate"} /\ MissingGroupingColumns # <<>>) =>
        ~res.ok /\ Range(calls) \cap ComputingSteps = {}

\* The calculation of the i-th configured metric of the run fails.
MetricFails(i) ==
    IF arg.family = "metrics.calculator" THEN ~Calculate(arg.calculators[i], arg.data).ok
    ELSE ~CalculationValidateInput(arg.data, KeyCols).ok

\* C20: a pipeline run in which the calculation of a configured metric fails
\* fails as a whole, and a table a run returns has a column for every
\* configured metric.
C20_FailingMetricFailsRun ==
    op = "run" =>
        /\ (\E i \in 1..Len(arg.calculators) : MetricFails(i)) => ~res.ok
        /\ res.ok => Range(ConfiguredNames) \subseteq Range(res.val.cols)

\* The same for the pipelines of calculators/ alone.
C20_ExpressionPipelineFailsAsAWhole ==
    arg.family = "calculators" => C20_FailingMetricFailsRun

\* ------------------------------------------------- the merge of the results

\* The manager number that stands for a missing PM_ID.
MissingId == 0

\* The pairs of the data sets given to the merging pipelines: with and
\* without a pair whose PM_ID is missing.
MergeKeySets ==
    {{<<1, 1>>}, {<<MissingId, 1>>}, {<<1, 1>>, <<1, 2>>}, {<<1, 1>>, <<2, 1>>},
     {<<1, 1>>, <<MissingId, 1>>}}

\* A row of the raw data; the PM_ID of the manager MissingId is null.
MergeRow(k, date, p) ==
    IF k[1] = MissingId THEN [RawRow(k, date, p) EXCEPT !["PM_ID"] = Null]
    ELSE RawRow(k, date, p)

MergeDatasets ==
    UNION {{Frame(RawCols, UNION {{MergeRow(k, d, f[k][1]) : d \in f[k][2]} : k \in K})
              : f \in [K -> Profiles \X CalcDateSets]} : K \in MergeKeySets}

\* The calculator lists of the merging pipelines: one result and two.
MergeInputs ==
    {[family |-> "metrics.calculator", calculators |-> cs, data |-> d]
       : cs \in {<<"Volatility">>, <<"Volatility", "Tracking_Error">>,
                 <<"Tracking_Error", "Volatility">>},
         d \in MergeDatasets}
    \cup {[family |-> "metrics", calculators |-> cs, data |-> d]
            : cs \in {<<"ExcessReturn">>, <<"ExcessReturn", "Volatility">>,
                      <<"Volatility", "ExcessReturn">>},
              d \in MergeDatasets}

InitMerge ==
    /\ op = "input"
    /\ arg \in MergeInputs
    /\ res = NotCalled
    /\ calls = <<>>
    /\ NoPipeline

\* CalculationPipeline(calculators).run(data) of metrics/pipeline.py
CallMetricsPipelineRun ==
    /\ op = "input" /\ arg.family = "metrics"
    /\ op' = "run"
    /\ res' = MetricsPipelineRun(arg.calculators, arg.data)
    /\ calls' = [i \in 1..Len(arg.calculators) |-> "calculate_all_groups"]
    /\ UNCHANGED <<arg, pipeVars>>

NextMerge == CallMetricsCalculationPipelineRun \/ CallMetricsPipelineRun

SpecMerge == InitMerge /\ [][NextMerge]_vars

\* The result of the i-th calculator of the run, before the merge.
ResultOf(i) ==
    IF arg.family = "metrics.calculator" THEN Calculate(arg.calculators[i], arg.data).val
    ELSE CalculateAllGroups(arg.calculators[i], arg.data).val

\* The key of a row.
KeyOf(r) == [c \in Range(KeyCols) |-> r[c]]

\* A missing value of the merged table: null, NaN in pandas.
IsMissing(v) == IsNull(v) \/ IsNaN(v)

\* C21: in the merged table of a run every key of at least one result has
\* exactly one row, which holds for every metric the value of the metric's
\* result for that key, and a missing value where the result has no row
\* for the key.
C21_MergeLosesNoGroup ==
    (op = "run" /\ res.ok) =>
        \A i \in 1..Len(arg.calculators) : \A q \in ResultOf(i).rows :
            /\ Cardinality({r \in res.val.rows : KeyOf(r) = KeyOf(q)}) = 1
            /\ \A r \in {x \in res.val.rows : KeyOf(x) = KeyOf(q)} :
                  \A j \in 1..Len(arg.calculators) :
                     LET m == MetricColumnsOf(ResultOf(j))[1]
                         own == {x \in ResultOf(j).rows : KeyOf(x) = KeyOf(q)}
                     IN  IF own = {} THEN IsMissing(r[m])
                         ELSE \A x \in own : r[m] = x[m]

\* The same for the runs on data in which no PM_ID is missing.
C21_MergeKeepsGroupsOfCompleteKeys ==
    (\A r \in arg.data.rows : ~IsNull(r["PM_ID"])) => C21_MergeLosesNoGroup

\* ------------------------------------------------- claims: no metric selected

\* The errors that report an empty selection of metrics.
EmptyInputErrors ==
    {"ValueError: No metrics to calculate weights for",
     "ValueError: Selected metrics must not be empty."}

\* A run of the pipeline has ended.
RunEnded == obj.kind = "ModelPipeline" /\ run # NoRun /\ pc = "idle"

\* C22: a run of a pipeline without selected metrics, on data that has the
\* grouping columns, ends with an empty-input error and assigns no score
\* table, with either weighting method and with or without manual weights.
C22_ZeroMetricsFailWithEmptyInputError ==
    (RunEnded /\ obj.metric_columns = <<>>
       /\ \A c \in Range(KeyCols) : HasCol(run.data, c)) =>
        /\ ~result.ok
        /\ result.err \in EmptyInputErrors
        /\ origin["strategy_scores"] # run.id
        /\ origin["pm_scores"] # run.id

\* A run of a pipeline without selected metrics never ends well and never
\* assigns a score table.
C22_ZeroMetricsProduceNoScoreTable ==
    (RunEnded /\ obj.metric_columns = <<>>) =>
        /\ ~result.ok
        /\ origin["strategy_scores"] # run.id
        /\ origin["pm_scores"] # run.id

\* With equal weighting and no manual weights the error is the empty-input
\* error of the weighting method.
C22_EqualWeightingReportsEmptyInput ==
    (RunEnded /\ obj.weighting_method = "EqualWeighting"
       /\ ~ManualWeightsTruthy(run.manual_weights)) =>
        C22_ZeroMetricsFailWithEmptyInputError

\* ------------------------------------------------------------ the factories
\* generics/factory.py, metrics/calculator/factory.py and
\* metrics/standardizer/factory.py.  A registry is a dict, kept as the
\* sequence of its <<name, class>> items in insertion order; `attrs` holds
\* the registry of the factory class and `local` the instances constructed
\* so far.

RegistryKeys(registry) == [i \in 1..Len(registry) |-> registry[i][1]]

\* registry.get(name): the class, or None.
RegistryGet(registry, name) ==
    IF \E i \in 1..Len(registry) : registry[i][1] = name
    THEN registry[CHOOSE i \in 1..Len(registry) : registry[i][1] = name][2]
    ELSE "None"

\* registry[name] = class: a new key is added at the end, a known key keeps
\* its place and gets the new class.
RegistrySet(registry, name, class) ==
    IF \E i \in 1..Len(registry) : registry[i][1] = name
    THEN [i \in 1..Len(registry) |->
            IF registry[i][1] = name THEN <<name, class>> ELSE registry[i]]
    ELSE Append(registry, <<name, class>>)

\* The class attribute of each factory as the module defines it.
InitialRegistry(factory) ==
    CASE factory = "GenericFactory" -> <<>>
      [] factory = "MetricCalculatorFactory" ->
           <<<<"Excess_Return", "ExcessReturnCalculator">>, <<"Beta", "BetaCalculator">>,
             <<"Volatility", "VolatilityCalculator">>,
             <<"Tracking_Error", "TrackingErrorCalculator">>,
             <<"Sharpe_Ratio", "SharpeRatioCalculator">>,
             <<"Information_Ratio", "InformationRatioCalculator">>,
             <<"Omega_Ratio", "OmegaRatioCalculator">>>>
      [] factory = "StandardizerFactory" ->
           <<<<"zscore", "ZScoreStandardizer">>, <<"minmax", "MinMaxStandardizer">>>>

\* The text of the error for a name that is not registered.
UnknownTypeError(factory, name) ==
    CASE factory = "GenericFactory" -> "ValueError: Unknown type: " \o name
      [] factory = "MetricCalculatorFactory" ->
           "ValueError: Unknown calculator type: " \o name
      [] factory = "StandardizerFactory" ->
           "ValueError: Unknown standardizer type: " \o name

\* Mutant: the class found is instantiated without the test for None.
CreateUnchecked(factory, registry, name) == Ok(RegistryGet(registry, name))

\* create / create_calculator / create_standardizer: the instance of the
\* registered class (an instance is written as the name of its class), or
\* the error.
Create(factory, registry, name) ==
    LET class == RegistryGet(registry, name)
    IN  IF class = "None" THEN Raise(UnknownTypeError(factory, name))
        ELSE Ok(class)

\* create_all / create_all_calculators: create for every key of the
\* registry.
CreateAll(factory, registry) ==
    [i \in 1..Len(registry) |-> Create(factory, registry, registry[i][1]).val]

Factories == {"GenericFactory", "MetricCalculatorFactory", "StandardizerFactory"}

\* The names asked for and registered, and the classes registered.
RequestedNames == {"Volatility", "minmax", "Custom", "Unknown"}
RegisteredNames == {"Custom", "minmax"}
RegisteredClasses == {"CustomA", "CustomB"}

\* The number of calls made on a factory.
MaxFactoryCalls == 3

InitFactory ==
    /\ op = "none" /\ arg = <<>> /\ res = NotCalled /\ calls = <<>>
    /\ obj \in {[kind |-> "Factory", factory |-> f] : f \in Factories}
    /\ attrs = InitialRegistry(obj.factory)
    /\ local = <<>>
    /\ pc = "idle" /\ run = NoRun /\ result = NotCalled /\ trace = <<>>
    /\ raised = NoRaise /\ origin = <<>> /\ completed = {}

\* What every call on a factory leaves alone.
FactoryFrame ==
    /\ Len(calls) < MaxFactoryCalls
    /\ UNCHANGED <<obj, pc, run, result, trace, raised, origin, completed>>

\* cls.register_calculator(name, key) / cls.register_standardizer(name, ...)
FactoryRegister ==
    /\ FactoryFrame
    /\ \E name \in RegisteredNames, class \in RegisteredClasses :
         /\ op' = "register" /\ arg' = <<name, class>>
         /\ attrs' = RegistrySet(attrs, name, class)
    /\ res' = Ok("None")
    /\ calls' = Append(calls, "register")
    /\ UNCHANGED local

\* cls.create(name) / create_calculator(name) / create_standardizer(name)
FactoryCreate ==
    /\ FactoryFrame
    /\ \E name \in RequestedNames :
         /\ op' = "create" /\ arg' = name
         /\ res' = Create(obj.factory, attrs, name)
         /\ local' = IF res'.ok THEN Append(local, res'.val) ELSE local
    /\ calls' = Append(calls, "create")
    /\ UNCHANGED attrs

\* cls.create_all() / cls.create_all_calculators()
FactoryCreateAll ==
    /\ FactoryFrame
    /\ obj.factory # "StandardizerFactory"
    /\ op' = "create_all" /\ arg' = <<>>
    /\ res' = Ok(CreateAll(obj.factory, attrs))
    /\ local' = local \o CreateAll(obj.factory, attrs)
    /\ calls' = Append(calls, "create_all")
    /\ UNCHANGED attrs

\* cls.get_registered_types() / available_calculators() /
\* available_standardizers()
FactoryGetRegisteredTypes ==
    /\ FactoryFrame
    /\ op' = "get_registered_types" /\ arg' = <<>>
    /\ res' = Ok(RegistryKeys(attrs))
    /\ calls' = Append(calls, "get_registered_types")
    /\ UNCHANGED <<attrs, local>>

NextFactory ==
    \/ FactoryRegister
    \/ FactoryCreate
    \/ FactoryCreateAll
    \/ FactoryGetRegisteredTypes

SpecFactory == InitFactory /\ [][NextFactory]_vars

\* C23: a call of create for a name that is not registered raises, adds no
\* instance and leaves the registry as it was; no call of create,
\* create_all or get_registered_types changes the registry.
C23_UnknownNameRaisesRegistryUnchanged ==
    [][/\ op' \in {"create", "create_all", "get_registered_types"} => attrs' = attrs
       /\ (op' = "create" /\ RegistryGet(attrs, arg') = "None") =>
             /\ ~res'.ok
             /\ res'.err = UnknownTypeError(obj.factory, arg')
             /\ local' = local
             /\ attrs' = attrs]_vars

\* Witness of C23: after a registration an unregistered name was asked for
\* and the call raised.
C23_Witness ==
    /\ obj.kind = "Factory"
    /\ calls = <<"register", "create">>
    /\ op = "create" /\ arg = "Unknown" /\ ~res.ok
    /\ local = <<>>

\* ------------------------------------------------- claims: repeated runs

\* The arguments of the call of run() or run_analysis() in `r`.
ArgumentsOf(r) ==
    IF obj.kind = "ModelPipeline"
    THEN <<r.data, r.manual_weights>>
    ELSE <<r.metric_columns, r.weights>>

\* The run that has ended is the second one on the object and was given the
\* arguments of the first; the configuration is that of the object.
RepeatedRun ==
    /\ run.id > 1 /\ pc = "idle"
    /\ ArgumentsOf(run) = ArgumentsOf(run.before.run)

\* The value of an attribute without the order of its rows.
Content(a, v) == IF a = "weights" \/ ~v.set THEN v ELSE Assigned(Unlisted(v.val))

\* C24: a run given the arguments of the run before it on the same object
\* ends as that run ended, and when it succeeds it leaves the weights and the
\* output tables that run left, identical row for row.
C24_RepeatedRunGivesIdenticalTables ==
    RepeatedRun =>
      /\ result = run.before.result
      /\ result.ok => attrs = run.before.attrs

\* C24, what the runs do: the repeated run ends as the first did, with the
\* same weights and with tables of the same columns and the same rows; the
\* order in which a table lists its rows is not determined by the arguments.
C24_RepeatedRunGivesSameRowsAndWeights ==
    RepeatedRun =>
      /\ result = run.before.result
      /\ result.ok =>
           \A a \in DOMAIN attrs : Content(a, attrs[a]) = Content(a, run.before.attrs[a])

\* A ModelPipeline run twice on the same data of two strategies, both runs
\* successful.
C24_RepeatedPipelineRun ==
    /\ obj.kind = "ModelPipeline" /\ RepeatedRun /\ result.ok
    /\ Cardinality(KeysOf(attrs["metric_data"].val)) = 2

\* ------------------------------------------ specification: scored scenario
\* Two strategies A and B whose metric values are given; the stages of
\* ModelPipeline.run after the calculation, and those of run_analysis after
\* the calculation, are applied to their metric table.

StrategyA == 1
StrategyB == 2
ScenarioStrategies == {StrategyA, StrategyB}

\* Metric values in hundredths: Excess_Return 0.02 or 0.04, Volatility 0.05
\* or 0.10.
ExcessReturnValues == {2, 4}
VolatilityValues == {5, 10}

\* The metric table of the two strategies with the metric columns named
\* excess and volatility.
ScenarioTable(a, excess, volatility) ==
    Frame(<<"PM_ID", "Strategy_ID", excess, volatility>>,
          {[c \in {"PM_ID", "Strategy_ID", excess, volatility} |->
              CASE c = "PM_ID" -> Num(a.pm[s])
                [] c = "Strategy_ID" -> Num(s)
                [] c = excess -> Hundredths(a.er[s])
                [] OTHER -> Hundredths(a.vol[s])] : s \in ScenarioStrategies})

InitScenario ==
    /\ op = "input"
    /\ arg \in [pm : [ScenarioStrategies -> PMs],
                er : [ScenarioStrategies -> ExcessReturnValues],
                vol : [ScenarioStrategies -> VolatilityValues]]
    /\ res = NotCalled
    /\ calls = <<>>
    /\ NoPipeline

\* ModelPipeline.run from its second statement on, for a pipeline of
\* ExcessReturn and Volatility with the min-max standardizer and equal
\* weights.
CallPipelineStages ==
    /\ op = "input"
    /\ op' = "pipeline"
    /\ LET o == ModelPipelineInit(<<"ExcessReturn", "Volatility">>, "EqualWeighting")
           metric_data == ScenarioTable(arg, "ExcessReturn", "Volatility")
           standardized_data == StandardizeMetrics(o, metric_data)
           weights == CalculateWeights(o, standardized_data.val, NoManualWeights)
           strategy_scores == AggregateStrategyScores(o, standardized_data.val, weights.val)
           pm_scores == AggregatePMScores(o, strategy_scores.val)
       IN  res' = Ok([standardized |-> standardized_data.val,
                      weights |-> weights.val,
                      strategy_scores |-> strategy_scores.val,
                      pm_scores |-> pm_scores.val])
    /\ calls' = <<"_standardize_metrics", "_calculate_weights",
                  "_aggregate_strategy_scores", "_aggregate_pm_scores">>
    /\ UNCHANGED <<arg, pipeVars>>

\* run_analysis from its standardizing statement on, called with the two
\* metric columns and the weights 0.5 / 0.5.
CallAnalysisStages ==
    /\ op = "input"
    /\ op' = "analysis"
    /\ LET metric_columns == <<"Excess_Return", "Volatility">>
           weights == ("Excess_Return" :> Hundredths(50)) @@ ("Volatility" :> Hundredths(50))
           calculated == ScenarioTable(arg, "Excess_Return", "Volatility")
           standardized == StandardizeLazy(calculated, metric_columns)
           metric_results == AggregateLazy(standardized, metric_columns, weights)
           scored == PMScoreAggregate(metric_results.val)
       IN  \E scored_results \in RankedAndSorted(scored) :
             res' = Ok([standardized |-> standardized.val,
                        weights |-> weights,
                        strategy_scores |-> metric_results.val,
                        scored_results |-> scored_results])
    /\ calls' = <<"standardize", "aggregate", "aggregate", "rank">>
    /\ UNCHANGED <<arg, pipeVars>>

NextScenario == CallPipelineStages \/ CallAnalysisStages

SpecScenario == InitScenario /\ [][NextScenario]_vars

\* ------------------------------------------------ claims: scored scenario

\* The scenario of C25: Excess_Return A = 0.02, B = 0.04 and Volatility
\* A = 0.10, B = 0.05.
IsScenario ==
    /\ arg.er = (StrategyA :> 2) @@ (StrategyB :> 4)
    /\ arg.vol = (StrategyA :> 10) @@ (StrategyB :> 5)

\* The value of column c in the row of table t that has value k in column key.
Cell(t, key, k, c) == (CHOOSE r \in t.rows : r[key] = Num(k))[c]

\* The names the call gives to its columns.
ExcessColumn == IF op = "pipeline" THEN "ExcessReturn" ELSE "Excess_Return"
StandardizedColumn(c) == IF op = "pipeline" THEN c ELSE StandardizedName(c)
ScoreColumn == IF op = "pipeline" THEN "StrategyScore" ELSE "Strategy_Score"

\* Both standardized metrics are 0 for A and 1 for B.
StandardizedAsStated ==
    \A c \in {ExcessColumn, "Volatility"} :
       /\ Cell(res.val.standardized, "Strategy_ID", StrategyA, StandardizedColumn(c)) = Num(0)
       /\ Cell(res.val.standardized, "Strategy_ID", StrategyB, StandardizedColumn(c)) = Num(1)

\* The strategy scores are 0 for A and 1 for B.
ScoresAsStated ==
    /\ Cell(res.val.strategy_scores, "Strategy_ID", StrategyA, ScoreColumn) = Num(0)
    /\ Cell(res.val.strategy_scores, "Strategy_ID", StrategyB, ScoreColumn) = Num(1)

\* C25: in the scenario, min-max standardization and the weights 0.5 / 0.5
\* give both standardized metrics A = 0 and B = 1 and the strategy scores
\* A = 0 and B = 1, and where the strategies have different managers the
\* ranking gives B's manager Rank 1 and A's manager Rank 2.
C25_ScenarioScoresAndRanks ==
    (op \in {"pipeline", "analysis"} /\ IsScenario) =>
      /\ StandardizedAsStated
      /\ ScoresAsStated
      /\ (op = "analysis" /\ arg.pm[StrategyA] # arg.pm[StrategyB]) =>
           /\ Cell(res.val.scored_results, "PM_ID", arg.pm[StrategyB], "Rank") = Num(1)
           /\ Cell(res.val.scored_results, "PM_ID", arg.pm[StrategyA], "Rank") = Num(2)

\* C25, the stages of ModelPipeline: standardized metrics and strategy scores
\* are as stated, the weights are 0.5 each, and where the strategies have
\* different managers B's manager has the PM score 1 and A's manager 0, which
\* a dense descending rank numbers 1 and 2.
C25_PipelineStagesGiveScenarioScores ==
    (op = "pipeline" /\ IsScenario) =>
      /\ StandardizedAsStated
      /\ ScoresAsStated
      /\ res.val.weights = [m \in {"ExcessReturn", "Volatility"} |-> Hundredths(50)]
      /\ arg.pm[StrategyA] # arg.pm[StrategyB] =>
           LET a == Cell(res.val.pm_scores, "PM_ID", arg.pm[StrategyA], "PMScore")
               b == Cell(res.val.pm_scores, "PM_ID", arg.pm[StrategyB], "PMScore")
           IN  /\ a = Num(0) /\ b = Num(1)
               /\ DenseRank(b, {a, b}) = Num(1)
               /\ DenseRank(a, {a, b}) = Num(2)

\* ------------------------------ metrics/calculator/performance_metrics.py

\* Mutant: the mean taken over all rows of the data, not over the group's.
ExcessReturnCalculatorCalculateOverall(data) ==
    Frame(<<"Strategy_ID", "Excess_Return">>,
          {[c \in {"Strategy_ID", "Excess_Return"} |->
              IF c = "Strategy_ID" THEN g["Strategy_ID"]
              ELSE ExcessReturnExpression(data)]
             : g \in GroupKeys(data, <<"Strategy_ID">>)})

\* ExcessReturnCalculator.calculate:
\* data.group_by("Strategy_ID").agg([(Return - Benchmark_Return).mean()
\*                                      .alias("Excess_Return")])
ExcessReturnCalculatorCalculate(data) ==
    Frame(<<"Strategy_ID", "Excess_Return">>,
          {[c \in {"Strategy_ID", "Excess_Return"} |->
              IF c = "Strategy_ID" THEN g["Strategy_ID"]
              ELSE ColMean(WithDiff(GroupOf(data, g)), "diff")]
             : g \in GroupKeys(data, <<"Strategy_ID">>)})

\* ------------------------------------------- specification: excess return

InitExcess ==
    /\ op = "input"
    /\ arg \in [family : {"calculators", "metrics.calculator"}, data : CalcDatasets]
    /\ res = NotCalled
    /\ calls = <<>>
    /\ NoPipeline

\* CalculationPipeline([ExcessReturn()]).run(data) of calculators/
CallExcessReturnRun ==
    /\ op = "input" /\ arg.family = "calculators"
    /\ op' = "run"
    /\ res' = CalculationPipelineRun(<<"ExcessReturn">>, KeyCols, arg.data)
    /\ calls' = <<"_validate_input", "agg">>
    /\ UNCHANGED <<arg, pipeVars>>

\* ExcessReturnCalculator().calculate(data) of metrics/calculator
CallExcessReturnCalculate ==
    /\ op = "input" /\ arg.family = "metrics.calculator"
    /\ op' = "calculate"
    /\ res' = Ok(ExcessReturnCalculatorCalculate(arg.data))
    /\ calls' = <<"group_by", "agg">>
    /\ UNCHANGED <<arg, pipeVars>>

NextExcess == CallExcessReturnRun \/ CallExcessReturnCalculate

SpecExcess == InitExcess /\ [][NextExcess]_vars

\* -------------------------------------------------- claims: excess return

\* The columns the call groups by and the column it writes.
ExcessGroupBy == IF op = "run" THEN KeyCols ELSE <<"Strategy_ID">>
ExcessReturnColumn == IF op = "run" THEN "ExcessReturn" ELSE "Excess_Return"

\* The group key of a row.
ExcessKey(r) == [c \in Range(ExcessGroupBy) |-> r[c]]

\* The input rows of the group g.
ExcessRows(g) == {q \in arg.data.rows : ExcessKey(q) = g}

\* The arithmetic mean of Return - Benchmark_Return over the rows of group g.
MeanDifference(g) ==
    RDiv(SumSet({<<q, RSub(q["Return"], q["Benchmark_Return"])>> : q \in ExcessRows(g)}),
         Num(Cardinality(ExcessRows(g))))

RatioMissingColumnSets == {{}, {"PM_ID"}, {"PM_ID", "Date", "Excess_Return"}}

InitRatio ==
    /\ op = "input"
    /\ arg \in {[family |-> "metrics.calculator", calculators |-> <<"Information_Ratio">>,
                  data |-> WithoutColumns(d, S)]
                   : d \in CalcDatasets, S \in RatioMissingColumnSets}
    /\ res = NotCalled
    /\ calls = <<>>
    /\ NoPipeline

NextRatio == CallCalculate

SpecRatio == InitRatio /\ [][NextRatio]_vars

\* ----------------------------------------------- claims: information ratio

\* InformationRatioCalculator().calculate was called on a table whose columns
\* are Strategy_ID, Return and Benchmark_Return.
StrategyOnlyInput ==
    /\ op = "calculate" /\ arg.calculators = <<"Information_Ratio">>
    /\ Range(arg.data.cols) = {"Strategy_ID", "Return", "Benchmark_Return"}

\* C27: InformationRatioCalculator.calculate does not reject a table whose
\* columns are Strategy_ID, Return and Benchmark_Return; it returns a table
\* with the columns Strategy_ID and Information_Ratio and one row for every
\* strategy.
C27_AcceptsStrategyOnlyInput ==
    StrategyOnlyInput =>
      /\ res.ok
      /\ HasCol(res.val, "Strategy_ID") /\ HasCol(res.val, "Information_Ratio")
      /\ {r["Strategy_ID"] : r \in res.val.rows} = {q["Strategy_ID"] : q \in arg.data.rows}
      /\ Cardinality(res.val.rows) = Cardinality({q["Strategy_ID"] : q \in arg.data.rows})

\* C27, what calculate does: a table without PM_ID is rejected with the
\* error that names the missing grouping column and nothing is computed; a
\* table that has PM_ID and Strategy_ID gives one Information_Ratio for every
\* (PM_ID, Strategy_ID) pair.
C27_StrategyOnlyInputRejected ==
    (op = "calculate" /\ arg.calculators = <<"Information_Ratio">>) =>
      IF HasCol(arg.data, "PM_ID")
      THEN /\ res.ok
           /\ res.val.cols = <<"PM_ID", "Strategy_ID", "Information_Ratio">>
           /\ PairsOf(res.val) = PairsOf(arg.data)
           /\ Cardinality(res.val.rows) = Cardinality(PairsOf(arg.data))
      ELSE /\ ~res.ok
           /\ res.err = "ValueError: Missing grouping columns in data: ['PM_ID']"
           /\ calls = <<"_validate_input">>

\* -------------------------------------------- specification: data pipeline

\* A data set with the further column AUM.
WithAUM(d) == WithColumn(d, "AUM", [r \in d.rows |-> Num(1)])

\* A data set of one strategy with RollingWindow observations.
LongDates == 1..RollingWindow
LongDataset == Frame(RawCols, {RawRow(<<1, 1>>, d, <<0, 0, 0, 0>>) : d \in LongDates})

\* What fetch_data gives: a data set, with or without AUM, or the error of a
\* file that is not there.
DataSources ==
    {Ok(d) : d \in Datasets \cup {LongDataset}}
      \cup {Ok(WithAUM(d)) : d \in Datasets \cup {LongDataset}}
      \cup {Raise("FileNotFoundError")}

\* The step lists of a DataPreprocessor: none, the sort, the list of
\* tests/data/test_pipeline.py, two steps in either order, a step twice.
StepLists ==
    {<<>>, <<"SortStep">>,
     <<"SortStep", "RollingMeanReturnStep", "RollingMeanBenchmarkReturnStep",
       "RollingStdReturnStep", "RollingStdBenchmarkReturnStep">>,
     <<"RollingStdReturnStep", "RollingMeanReturnStep">>,
     <<"RollingMeanReturnStep", "RollingStdReturnStep">>,
     <<"RollingMeanReturnStep", "SortStep", "RollingMeanReturnStep">>}

InitData ==
    /\ op = "input"
    /\ arg \in [source : DataSources, steps : StepLists]
    /\ res = NotCalled
    /\ calls = <<>>
    /\ NoPipeline

\* DataPipeline(source, DataValidator(), DataPreprocessor(steps)).run()
CallDataPipelineRun ==
    /\ op = "input"
    /\ op' = "run"
    /\ res' = DataPipelineRun(arg.source, arg.steps)
    /\ calls' = IF arg.source.ok
                THEN <<"fetch_data", "validate">> \o arg.steps
                ELSE <<"fetch_data">>
    /\ UNCHANGED <<arg, pipeVars>>

NextData == CallDataPipelineRun

SpecData == InitData /\ [][NextData]_vars

\* --------------------------------------------------- claims: data pipeline

\* The aliases of the rolling steps of a list, in list order, each once.
RECURSIVE AliasesFrom(_, _, _)
AliasesFrom(steps, i, seen) ==
    IF i > Len(steps) THEN seen
    ELSE IF steps[i] \in RollingSteps /\ StepAlias(steps[i]) \notin Range(seen)
    THEN AliasesFrom(steps, i + 1, Append(seen, StepAlias(steps[i])))
    ELSE AliasesFrom(steps, i + 1, seen)

\* Row r without the columns outside C.
Restricted(r, C) == [c \in C |-> r[c]]

\* The fetched row r is one the validator keeps.
PassesValidation(r) ==
    /\ IsFinite(r["PM_ID"]) /\ IsFinite(r["Strategy_ID"])
    /\ \A c \in {"Return", "Benchmark_Return", "Excess_Return"} : RLeq(Num(-1), r[c])

C28_RollingValueWitness ==
    /\ op = "run" /\ res.ok
    /\ \E r \in res.val.rows :
          HasCol(res.val, "Rolling_12M_Return") /\ ~IsNull(r["Rolling_12M_Return"])

\* ---------------------------------------------------------------- config.py
\* A Configuration as the fields selected_metrics, standardizer and
\* metric_weights; the validators of the other fields read nothing of these.

\* check_selected_metrics
CheckSelectedMetrics(v) ==
    IF v = <<>>
    THEN Raise("ValueError: Selected metrics must not be empty.")
    ELSE IF Range(v) \ Range(RegistryKeys(InitialRegistry("MetricCalculatorFactory"))) # {}
    THEN Raise("ValueError: Invalid metric.")
    ELSE Ok(v)

\* check_standardizer
CheckStandardizer(v) ==
    IF v \notin Range(RegistryKeys(InitialRegistry("StandardizerFactory")))
    THEN Raise("ValueError: Invalid standardizer.")
    ELSE Ok(v)

\* check_metric_weights
CheckMetricWeights(v) ==
    IF DOMAIN v = {}
    THEN Raise("ValueError: Metric weights must not be empty.")
    ELSE IF ~(\A m \in DOMAIN v : RLeq(Num(0), v[m]) /\ RLeq(v[m], Num(1)))
    THEN Raise("ValueError: Weights must be between 0 and 1.")
    ELSE IF WeightsSum(v) # Num(1)
    THEN Raise("ValueError: Weights must sum to 1.")
    ELSE Ok(v)

\* Configuration(**fields): every field validator is run on its own field;
\* the object is made when none raised.
ConfigurationInit(fields) ==
    IF /\ CheckSelectedMetrics(fields.selected_metrics).ok
       /\ CheckStandardizer(fields.standardizer).ok
       /\ CheckMetricWeights(fields.metric_weights).ok
    THEN Ok(fields)
    ELSE Raise("ValidationError")

\* ------------------------------------------- specification: configuration

ConfigMetricLists ==
    {<<>>, <<"Volatility">>, <<"Volatility", "Tracking_Error">>,
     <<"Tracking_Error", "Volatility">>, <<"Unknown">>}

\* metric_weights: empty, valid maps for one and two metrics, a negative
\* weight in a map summing to 1, sums of 0.99 and 0.5, a key that is no
\* metric.
ConfigWeightMaps ==
    {<<>>,
     "Volatility" :> Hundredths(100),
     "Sharpe_Ratio" :> Hundredths(100),
     "Unknown" :> Hundredths(100),
     ("Volatility" :> Hundredths(50)) @@ ("Tracking_Error" :> Hundredths(50)),
     ("Volatility" :> Hundredths(25)) @@ ("Tracking_Error" :> Hundredths(75)),
     ("Volatility" :> Hundredths(150)) @@ ("Tracking_Error" :> Hundredths(-50)),
     ("Volatility" :> Hundredths(50)) @@ ("Tracking_Error" :> Hundredths(49)),
     "Volatility" :> Hundredths(50)}

ConfigStandardizers == {"zscore", "minmax", "robust"}

InitConfig ==
    /\ op = "input"
    /\ arg \in [selected_metrics : ConfigMetricLists,
                metric_weights : ConfigWeightMaps,
                standardizer : ConfigStandardizers]
    /\ res = NotCalled
    /\ calls = <<>>
    /\ NoPipeline

\* Configuration(**config), as initialize_orchestrator calls it.
CallConfiguration ==
    /\ op = "input"
    /\ op' = "Configuration"
    /\ res' = ConfigurationInit(arg)
    /\ calls' = <<"check_selected_metrics", "check_standardizer", "check_metric_weights">>
    /\ UNCHANGED <<arg, pipeVars>>

\* run_analysis(config["selected_metrics"], config["metric_weights"]) of an
\* accepted configuration reaches _check_weights in aggregate.
CallCheckWeights ==
    /\ op = "Configuration" /\ res.ok
    /\ op' = "_check_weights"
    /\ res' = CheckWeights(arg.metric_weights, arg.selected_metrics)
    /\ calls' = Append(calls, "_check_weights")
    /\ UNCHANGED <<arg, pipeVars>>

NextConfig == CallConfiguration \/ CallCheckWeights

SpecConfig == InitConfig /\ [][NextConfig]_vars

\* --------------------------------------------------- claims: configuration

\* C29: the weights of every Configuration that passes its validators pass
\* _check_weights when run_analysis is called with the configuration's
\* selected metrics: their keys are the selected metrics, none is negative
\* and their sum is within 0.01 of 1.
C29_AcceptedConfigurationPassesCheckWeights ==
    op = "_check_weights" =>
      /\ res.ok
      /\ DOMAIN arg.metric_weights = Range(arg.selected_metrics)

\* C29, what the validators establish: the accepted weights are not empty,
\* each lies in [0, 1] and they sum to exactly 1; _check_weights then fails
\* only for keys that differ from the selected metrics, which no validator
\* compares.
C29_AcceptedWeightsFailOnlyOnKeys ==
    op = "_check_weights" =>
      /\ DOMAIN arg.metric_weights # {}
      /\ \A m \in DOMAIN arg.metric_weights :
            RLeq(Num(0), arg.metric_weights[m]) /\ RLeq(arg.metric_weights[m], Num(1))
      /\ WeightsSum(arg.metric_weights) = Num(1)
      /\ res.ok <=> DOMAIN arg.metric_weights = Range(arg.selected_metrics)
      /\ ~res.ok => res.err = "ValueError: Weights keys must match metric columns exactly"

\* ------------------------------------------- orchestrator.py: the getters

\* Mutant: the attribute collected without the test for None.
GetMetricResultsUnchecked(metric_results) == Ok(metric_results.val)

\* get_metric_results: self.metric_results.collect(), ValueError while the
\* attribute is None.
GetMetricResults(metric_results) ==
    IF ~metric_results.set
    THEN Raise("ValueError: No metric results available. Run analysis first.")
    ELSE Ok(metric_results.val)

\* get_scored_results
GetScoredResults(scored_results) ==
    IF ~scored_results.set
    THEN Raise("ValueError: No scored results available. Run analysis first.")
    ELSE Ok(scored_results.val)

\* -------------------------------------- specification: the result getters

InitGetters == Init /\ obj.kind = "Orchestrator"

\* orchestrator.get_metric_results(), called while no run is in progress.
CallGetMetricResults ==
    /\ obj.kind = "Orchestrator" /\ pc = "idle"
    /\ op' = "get_metric_results"
    /\ res' = GetMetricResults(attrs["metric_results"])
    /\ UNCHANGED <<arg, calls, pipeVars>>

\* orchestrator.get_scored_results(), called while no run is in progress.
CallGetScoredResults ==
    /\ obj.kind = "Orchestrator" /\ pc = "idle"
    /\ op' = "get_scored_results"
    /\ res' = GetScoredResults(attrs["scored_results"])
    /\ UNCHANGED <<arg, calls, pipeVars>>

NextGetters ==
    \/ RunAnalysis
    \/ AnalysisProcessData
    \/ AnalysisCalculate
    \/ AnalysisStandardize
    \/ AnalysisStrategyScores
    \/ AnalysisPMScores
    \/ AnalysisRank
    \/ CallGetMetricResults
    \/ CallGetScoredResults

SpecGetters == InitGetters /\ [][NextGetters]_vars

\* ------------------------------------------------- claims: result getters

\* The step is a call of a getter.
GetterCalled ==
    /\ op' \in {"get_metric_results", "get_scored_results"}
    /\ UNCHANGED pipeVars

\* C30: a getter called while no run_analysis has completed successfully
\* raises ValueError; a getter called after a successful run_analysis
\* returns a table, also when a later run has failed.  What one getter does
\* the other does.
C30_GettersGuardedByCompletion ==
    [][GetterCalled =>
         /\ completed = {} =>
               /\ ~res'.ok
               /\ res'.err \in {"ValueError: No metric results available. Run analysis first.",
                                 "ValueError: No scored results available. Run analysis first."}
         /\ completed # {} => (res'.ok /\ res'.val.cols # <<>>)
         /\ GetMetricResults(attrs["metric_results"]).ok =
               GetScoredResults(attrs["scored_results"]).ok]_vars

\* Witness of C30: get_scored_results returned a table after a successful
\* run that was followed by a failed one.
C30_Witness ==
    /\ obj.kind = "Orchestrator" /\ pc = "idle"
    /\ op = "get_scored_results" /\ res.ok
    /\ completed = {1} /\ run.id = 2 /\ ~result.ok

\* A getter raised after a run that failed, no run having succeeded.
C30_RaisedAfterFailedRun ==
    /\ obj.kind = "Orchestrator" /\ pc = "idle"
    /\ op = "get_metric_results" /\ ~res.ok
    /\ completed = {} /\ run.id = 1 /\ ~result.ok
====
